---- MODULE Spec2Model ----
(***************************************************************************)
(* The gopkg.in vanity resolver of athens: the reference-advertisement     *)
(* rewriter (changeRefs), the TTL cache and fetcher (getRefs, setRefs,     *)
(* fetchRefs) and the resolver entry points (Vanity.handle,                *)
(* Vanity.ReplaceVanity), pkg/vanity/plugins/gopkg.                        *)
(*                                                                         *)
(* A byte string is a sequence of one-character strings.  Go's 0-based     *)
(* half-open slices s[a:b] are written Slice(s, a, b).                     *)
(***************************************************************************)
EXTENDS Integers, Sequences, FiniteSets, TLC

VARIABLES
    \* ---- the rewriter, applied to one advertisement (SpecRefs) ----
    ad,         \* the advertisement as the upstream composed it: a sequence of line ids
    hdr,        \* whether the smart-HTTP service header precedes the references
    data,       \* changeRefs' argument data: the bytes of the advertisement
    major,      \* changeRefs' argument major: the requested version bucket
    phase,      \* "input", "rewritten", "again"
    res,        \* what changeRefs(data, major) ended with
    res2,       \* what changeRefs(res.changed, major) ended with
    rrepo,      \* the Repo of the caller, after repo.SetVersions(versions)
    \* ---- the resolver and the advertisement cache (Spec) ----
    refsCache,  \* refsCache: repository root -> entry {refs, timestamp}, or NoEntry
    now,        \* the wall clock, in seconds
    calls,      \* per repository root, the outbound discovery requests the upstream saw
    started,    \* ReplaceVanity calls begun
    pc,         \* per goroutine, where its ReplaceVanity call stands
    loc,        \* per goroutine, the locals of its ReplaceVanity/handle/fetchRefs call
    hist,       \* per repository root, what the fetchRefs calls for it did so far
    \* ---- the dispatcher and its cache (SpecMod, SpecConc) ----
    cache,      \* cache: path -> entry, under the vanity and the replacement path
    cacheMux,   \* cacheMux: the goroutine holding it for writing (0: none), those reading
    mpc,        \* per goroutine, where its ReplaceMod/Restore call stands
    mloc,       \* per goroutine, the locals of its ReplaceMod/Restore call
    budget      \* per goroutine, the requests it still serves

rvars == <<ad, hdr, data, major, phase, res, res2, rrepo>>

fvars == <<refsCache, now, calls, started, pc, loc, hist>>

dvars == <<cache, cacheMux, mpc, mloc, budget>>

vars == <<ad, hdr, data, major, phase, res, res2, rrepo,
          refsCache, now, calls, started, pc, loc, hist,
          cache, cacheMux, mpc, mloc, budget>>

-----------------------------------------------------------------------------
(* Bytes and the string functions of the Go library that the code calls.   *)

NUL == "NUL"        \* the byte 0x00
LF  == "\n"
SP  == " "

Slice(s, a, b) == SubSeq(s, a + 1, b)

Range(s) == {s[k] : k \in 1..Len(s)}

MinOf(S) == CHOOSE x \in S : \A y \in S : x <= y

\* strings.IndexByte(s, c): 0-based index of the first c in s, -1 if none
IndexByte(s, c) ==
    LET at == {k \in 1..Len(s) : s[k] = c}
    IN  IF at = {} THEN -1 ELSE MinOf(at) - 1

\* strings.IndexAny(s, chars)
IndexAny(s, chars) ==
    LET at == {k \in 1..Len(s) : s[k] \in chars}
    IN  IF at = {} THEN -1 ELSE MinOf(at) - 1

HasPrefix(s, p) == Len(s) >= Len(p) /\ SubSeq(s, 1, Len(p)) = p

HasSuffix(s, p) == Len(s) >= Len(p) /\ SubSeq(s, Len(s) - Len(p) + 1, Len(s)) = p

TrimSuffix(s, p) == IF HasSuffix(s, p) THEN SubSeq(s, 1, Len(s) - Len(p)) ELSE s

\* strings.Replace(s, old, new, -1): every non-overlapping old, left to right
RECURSIVE ReplaceAll(_, _, _)
ReplaceAll(s, old, new) ==
    IF Len(s) < Len(old) THEN s
    ELSE IF HasPrefix(s, old)
         THEN new \o ReplaceAll(SubSeq(s, Len(old) + 1, Len(s)), old, new)
         ELSE <<s[1]>> \o ReplaceAll(Tail(s), old, new)

HexLower == <<"0","1","2","3","4","5","6","7","8","9","a","b","c","d","e","f">>
HexUpper == <<"0","1","2","3","4","5","6","7","8","9","A","B","C","D","E","F">>

IsHexDigit(c) == \E k \in 1..16 : HexLower[k] = c \/ HexUpper[k] = c

HexVal(c) == (CHOOSE k \in 1..16 : HexLower[k] = c \/ HexUpper[k] = c) - 1

\* strings.Split(s, sep) for a one-byte sep
RECURSIVE Split(_, _)
Split(s, sep) ==
    IF \A k \in 1..Len(s) : s[k] # sep THEN <<s>>
    ELSE <<Slice(s, 0, IndexByte(s, sep))>>
             \o Split(Slice(s, IndexByte(s, sep) + 1, Len(s)), sep)

RECURSIVE HexNum(_)
HexNum(s) == IF s = <<>> THEN 0 ELSE 16 * HexNum(SubSeq(s, 1, Len(s) - 1)) + HexVal(s[Len(s)])

\* strconv.ParseInt(s, 16, 32) of a 4-byte s: an optional sign, then hex digits
ParseInt16(s) ==
    LET signed == Len(s) > 0 /\ s[1] \in {"+", "-"}
        digits == IF signed THEN Tail(s) ELSE s
    IN  IF digits = <<>> \/ \E k \in 1..Len(digits) : ~IsHexDigit(digits[k])
        THEN [ok |-> FALSE, n |-> 0]
        ELSE [ok |-> TRUE,
              n  |-> IF signed /\ s[1] = "-" THEN 0 - HexNum(digits) ELSE HexNum(digits)]

RECURSIVE HexDigitsOf(_)
HexDigitsOf(n) ==
    IF n < 16 THEN <<HexLower[n + 1]>>
    ELSE HexDigitsOf(n \div 16) \o <<HexLower[(n % 16) + 1]>>

\* fmt's %04x: lower-case hex, zero-padded to a width of at least 4
ZeroPad4(d) ==
    CASE Len(d) = 1 -> <<"0", "0", "0">> \o d
      [] Len(d) = 2 -> <<"0", "0">> \o d
      [] Len(d) = 3 -> <<"0">> \o d
      [] OTHER      -> d

Hex04(n) == ZeroPad4(HexDigitsOf(n))

-----------------------------------------------------------------------------
(* Version: the value type, its order and its bucket containment.          *)

InvalidVersion == [Major |-> -1, Minor |-> -1, Patch |-> -1, Unstable |-> FALSE]

IsValid(v) == v # InvalidVersion

Digits == <<"0","1","2","3","4","5","6","7","8","9">>

IsDigit(c) == \E k \in 1..10 : Digits[k] = c

DigitVal(c) == (CHOOSE k \in 1..10 : Digits[k] = c) - 1

RECURSIVE DecNum(_)
DecNum(s) == IF s = <<>> THEN 0 ELSE 10 * DecNum(SubSeq(s, 1, Len(s) - 1)) + DigitVal(s[Len(s)])

\* one numeric component, 0 or without a leading zero: its value, or -1
ParseVersionPart(s) ==
    IF s = <<>> \/ (\E k \in 1..Len(s) : ~IsDigit(s[k])) \/ (Len(s) > 1 /\ s[1] = "0")
    THEN -1
    ELSE DecNum(s)

UnstableSuffix == <<"-","u","n","s","t","a","b","l","e">>

\* the numeric components after "v", at most three
parseVersionParts(uns, parts) ==
    IF Len(parts) > 3 \/ \E k \in 1..Len(parts) : ParseVersionPart(parts[k]) < 0
    THEN [ok |-> FALSE, v |-> InvalidVersion]
    ELSE [ok |-> TRUE,
          v  |-> [Major    |-> ParseVersionPart(parts[1]),
                  Minor    |-> IF Len(parts) >= 2 THEN ParseVersionPart(parts[2]) ELSE -1,
                  Patch    |-> IF Len(parts) >= 3 THEN ParseVersionPart(parts[3]) ELSE -1,
                  Unstable |-> uns]]

parseVersionBody(uns, body) ==
    IF Len(body) < 2 \/ body[1] # "v"
    THEN [ok |-> FALSE, v |-> InvalidVersion]
    ELSE parseVersionParts(uns, Split(Tail(body), "."))

\* parseVersion(s): v(0|[1-9][0-9]*)(\.(0|[1-9][0-9]*)){0,2}(-unstable)?
parseVersion(s) == parseVersionBody(HasSuffix(s, UnstableSuffix), TrimSuffix(s, UnstableSuffix))

\* Version.Less: major, then minor, then patch; an absent component (-1) sorts lowest
Less(a, b) ==
    IF a.Major # b.Major THEN a.Major < b.Major
    ELSE IF a.Minor # b.Minor THEN a.Minor < b.Minor
    ELSE IF a.Patch # b.Patch THEN a.Patch < b.Patch
    ELSE FALSE

\* Version.Contains, of a bucket (no minor, no patch): same major, same unstable flag
Contains(bucket, v) == bucket.Major = v.Major /\ bucket.Unstable = v.Unstable

-----------------------------------------------------------------------------
(* changeRefs: the advertisement rewriter.                                 *)

nameHEAD     == <<"H","E","A","D">>
nameMaster   == <<"r","e","f","s","/","h","e","a","d","s","/","m","a","s","t","e","r">>
prefixHeads  == <<"r","e","f","s","/","h","e","a","d","s","/">>
prefixHeadsV == <<"r","e","f","s","/","h","e","a","d","s","/","v">>
prefixTagsV  == <<"r","e","f","s","/","t","a","g","s","/","v">>
peelSuffix   == <<"^","{","}">>
symrefKey    == <<"s","y","m","r","e","f","=">>
oldrefKey    == <<"o","l","d","r","e","f","=">>
symrefHEAD   == <<"s","y","m","r","e","f","=","H","E","A","D",":">>

HashLen == 40

\* the three ways changeRefs ends: a result, an error value, a runtime panic
Ok(changed, versions) ==
    [kind |-> "ok", err |-> "nil", changed |-> changed, versions |-> versions]
Err(e) == [kind |-> "error", err |-> e, changed |-> <<>>, versions |-> <<>>]
Panic  == [kind |-> "panic", err |-> "nil", changed |-> <<>>, versions |-> <<>>]

\* changeRefs not called yet
NoResult == [kind |-> "none", err |-> "nil", changed |-> <<>>, versions |-> <<>>]

\* the locals of changeRefs before its loop; i is the loop variable
ScanInit ==
    [i |-> 0, hlinei |-> 0, hlinej |-> 0, mlinei |-> 0, mlinej |-> 0,
     vrefhash |-> <<>>, vrefname |-> <<>>, vrefv |-> InvalidVersion, versions |-> <<>>]

\* Selects with a strict comparison only: an equal version seen later does not
\* replace the best reference (C5 fails with it)
Selects_StrictlyGreater(maj, v, vrefv) ==
    Contains(maj, v) /\ (~IsValid(vrefv) \/ Less(vrefv, v))

\* whether a parsed version v replaces the best reference vrefv
Selects(maj, v, vrefv) ==
    Contains(maj, v) /\ (v = vrefv \/ ~IsValid(vrefv) \/ Less(vrefv, v))

\* the end of the loop body with the version appended only when it is selected
\* (C6 fails with it)
ScanLineEnd_ListsSelectedOnly(st, j, hash, name, sname, pv, take) ==
    [i        |-> j,
     hlinei   |-> IF name = nameHEAD THEN st.i ELSE st.hlinei,
     hlinej   |-> IF name = nameHEAD THEN j ELSE st.hlinej,
     mlinei   |-> IF name = nameMaster THEN st.i ELSE st.mlinei,
     mlinej   |-> IF name = nameMaster THEN j ELSE st.mlinej,
     vrefv    |-> IF take THEN pv.v ELSE st.vrefv,
     vrefhash |-> IF take THEN hash ELSE st.vrefhash,
     vrefname |-> IF take THEN sname ELSE st.vrefname,
     versions |-> IF take THEN Append(st.versions, pv.v) ELSE st.versions]

\* the end of the loop body: the HEAD and master spans, the best reference (when
\* take) and the version list (when the name parsed: pv.ok)
ScanLineEnd(st, j, hash, name, sname, pv, take) ==
    [i        |-> j,
     hlinei   |-> IF name = nameHEAD THEN st.i ELSE st.hlinei,
     hlinej   |-> IF name = nameHEAD THEN j ELSE st.hlinej,
     mlinei   |-> IF name = nameMaster THEN st.i ELSE st.mlinei,
     mlinej   |-> IF name = nameMaster THEN j ELSE st.mlinej,
     vrefv    |-> IF take THEN pv.v ELSE st.vrefv,
     vrefhash |-> IF take THEN hash ELSE st.vrefhash,
     vrefname |-> IF take THEN sname ELSE st.vrefname,
     versions |-> IF pv.ok THEN Append(st.versions, pv.v) ELSE st.versions]

\* a name that is not refs/heads/v* or refs/tags/v* is not parsed
NotParsed == [ok |-> FALSE, v |-> InvalidVersion]

\* the loop body once name is known; sname is name without "^{}"
ScanLineVersion(maj, st, j, hash, name, sname, pv) ==
    ScanLineEnd(st, j, hash, name, sname, pv, pv.ok /\ Selects(maj, pv.v, st.vrefv))

ScanLineName(maj, st, j, hash, name, sname) ==
    ScanLineVersion(maj, st, j, hash, name, sname,
                    IF HasPrefix(name, prefixHeadsV) \/ HasPrefix(name, prefixTagsV)
                    THEN parseVersion(Slice(sname, IndexByte(sname, "v"), Len(sname)))
                    ELSE NotParsed)

\* the loop body from namei on; nend is IndexAny's result
ScanLineHash(sdata, maj, st, j, hashi, hashj, nend) ==
    ScanLineName(maj, st, j, Slice(sdata, hashi, hashj),
                 Slice(sdata, hashj + 1, IF nend < 0 THEN j ELSE nend + hashj + 1),
                 TrimSuffix(Slice(sdata, hashj + 1, IF nend < 0 THEN j ELSE nend + hashj + 1),
                            peelSuffix))

\* the loop body from the hash on, for the line sdata[i:j]; hsp is IndexByte's result
ScanLineAt(sdata, maj, st, j, hashi, hsp) ==
    IF hsp < 0 \/ hsp # HashLen
    THEN [st EXCEPT !.i = j]
    ELSE ScanLineHash(sdata, maj, st, j, hashi, hsp + hashi,
                      IndexAny(Slice(sdata, hsp + hashi + 1, j), {LF, NUL}))

ScanLine(sdata, maj, st, j) ==
    ScanLineAt(sdata, maj, st, j, st.i + 4, IndexByte(Slice(sdata, st.i + 4, j), SP))

RECURSIVE ScanRefs(_, _, _)

\* the loop body once j is known
ScanPkt(sdata, maj, st, j) ==
    IF j > Len(sdata) THEN [kind |-> "stop", st |-> st, out |-> Err("Incomplete")]
    ELSE IF sdata[1] = "#" THEN ScanRefs(sdata, maj, [st EXCEPT !.i = j])
    ELSE IF st.i + 4 > j
         THEN [kind |-> "stop", st |-> st, out |-> Panic]   \* sdata[hashi:j], hashi > j
    ELSE ScanRefs(sdata, maj, ScanLine(sdata, maj, st, j))

\* the loop body once the size is parsed (p)
ScanSize(sdata, maj, st, p) ==
    IF ~p.ok THEN [kind |-> "stop", st |-> st, out |-> Err("ParseSize")]
    ELSE ScanPkt(sdata, maj, st, st.i + (IF p.n = 0 THEN 4 ELSE p.n))

\* the parsing loop: ends "done" with the locals, or with an error or a panic
ScanRefs(sdata, maj, st) ==
    IF st.i >= Len(sdata) THEN [kind |-> "done", st |-> st, out |-> Panic]
    ELSE IF st.i + 4 > Len(sdata)
         THEN [kind |-> "stop", st |-> st, out |-> Panic]   \* sdata[i:i+4] out of range
    ELSE ScanSize(sdata, maj, st, ParseInt16(Slice(sdata, st.i, st.i + 4)))

V0Stable == [Major |-> 0, Minor |-> -1, Patch |-> -1, Unstable |-> FALSE]

\* the capabilities of the original HEAD line, symref= renamed: <<ok, caps>>;
\* n is the index of the NUL in the line
HeadCapsAt(sdata, st, n) ==
    IF n > 0
    THEN IF st.hlinei + n + 1 > st.hlinej - 1
         THEN [ok |-> FALSE, caps |-> <<>>]     \* slice bounds out of range
         ELSE [ok |-> TRUE,
               caps |-> ReplaceAll(Slice(sdata, st.hlinei + n + 1, st.hlinej - 1),
                                   symrefKey, oldrefKey)]
    ELSE [ok |-> TRUE, caps |-> <<>>]

HeadCaps(sdata, st) == HeadCapsAt(sdata, st, IndexByte(Slice(sdata, st.hlinei, st.hlinej), NUL))

\* HeadLine attaching the symref capability for a tag as for a branch (C3 fails
\* with it)
HeadLine_SymrefForTags(st, caps) ==
    IF caps = <<>>
    THEN st.vrefhash \o <<SP>> \o nameHEAD \o <<NUL>> \o symrefHEAD \o st.vrefname \o <<LF>>
    ELSE st.vrefhash \o <<SP>> \o nameHEAD \o <<NUL>> \o symrefHEAD \o st.vrefname
         \o <<SP>> \o caps \o <<LF>>

\* the new HEAD line's payload
HeadLine(st, caps) ==
    IF HasPrefix(st.vrefname, prefixHeads)
    THEN IF caps = <<>>
         THEN st.vrefhash \o <<SP>> \o nameHEAD \o <<NUL>> \o symrefHEAD \o st.vrefname \o <<LF>>
         ELSE st.vrefhash \o <<SP>> \o nameHEAD \o <<NUL>> \o symrefHEAD \o st.vrefname
              \o <<SP>> \o caps \o <<LF>>
    ELSE IF caps = <<>>
         THEN st.vrefhash \o <<SP>> \o nameHEAD \o <<LF>>
         ELSE st.vrefhash \o <<SP>> \o nameHEAD \o <<NUL>> \o caps \o <<LF>>

\* the new refs/heads/master line's payload
MasterLine(st) == st.vrefhash \o <<SP>> \o nameMaster \o <<LF>>

\* fmt.Fprintf(&buf, "%04x%s", 4+len(line), line)
PktLine(line) == Hex04(4 + Len(line)) \o line

\* RestOf leaving the original refs/heads/master line in place (C1 fails with it)
RestOf_KeepsMaster(sdata, st) == Slice(sdata, st.hlinej, Len(sdata))

\* the rest of the stream after the original HEAD line, the master line dropped
RestOf(sdata, st) ==
    IF st.mlinei > 0
    THEN Slice(sdata, st.hlinej, st.mlinei) \o Slice(sdata, st.mlinej, Len(sdata))
    ELSE Slice(sdata, st.hlinej, Len(sdata))

\* the output, given the capabilities hc
RewriteWith(sdata, st, hc) ==
    IF ~hc.ok THEN Panic
    ELSE IF st.mlinei > 0 /\ st.hlinej > st.mlinei
         THEN Panic                                  \* data[hlinej:mlinei], hlinej > mlinei
    ELSE Ok(Slice(sdata, 0, st.hlinei)
                \o PktLine(HeadLine(st, hc.caps))
                \o PktLine(MasterLine(st))
                \o RestOf(sdata, st),
            st.versions)

Rewrite(sdata, st) == RewriteWith(sdata, st, HeadCaps(sdata, st))

\* changeRefs after its loop without the test for a HEAD line (C2 fails with it)
AfterScan_NoHeadCheck(sdata, maj, sc) ==
    IF sc.kind # "done" THEN sc.out
    ELSE IF Len(sc.st.versions) = 0 /\ maj = V0Stable THEN Ok(sdata, <<>>)
    ELSE IF sc.st.vrefhash = <<>> THEN Err("ErrNoVersion")
    ELSE Rewrite(sdata, sc.st)

\* changeRefs after its loop, falling back to the input for v0 whenever no reference
\* matched, not only when no versioned reference exists (C4 fails with it)
AfterScan_FallbackOnNoMatch(sdata, maj, sc) ==
    IF sc.kind # "done" THEN sc.out
    ELSE IF sc.st.vrefhash = <<>> /\ maj = V0Stable THEN Ok(sdata, <<>>)
    ELSE IF sc.st.hlinei = 0 \/ sc.st.vrefhash = <<>> THEN Err("ErrNoVersion")
    ELSE Rewrite(sdata, sc.st)

\* changeRefs after its loop (sc is how the loop ended): the v0 fallback, the
\* ErrNoVersion test, the rewrite
AfterScan(sdata, maj, sc) ==
    IF sc.kind # "done" THEN sc.out
    ELSE IF Len(sc.st.versions) = 0 /\ maj = V0Stable THEN Ok(sdata, <<>>)
    ELSE IF sc.st.hlinei = 0 \/ sc.st.vrefhash = <<>> THEN Err("ErrNoVersion")
    ELSE Rewrite(sdata, sc.st)

\* changeRefs(data, major): the changed advertisement and the versions, or an error
changeRefs(sdata, maj) == AfterScan(sdata, maj, ScanRefs(sdata, maj, ScanInit))

-----------------------------------------------------------------------------
(* The path grammar (patternNew, patternOld) and the Repo value.           *)

LowerChars == {"a","b","c","d","e","f","g","h","i","j","k","l","m",
               "n","o","p","q","r","s","t","u","v","w","x","y","z"}
UpperChars == {"A","B","C","D","E","F","G","H","I","J","K","L","M",
               "N","O","P","Q","R","S","T","U","V","W","X","Y","Z"}
DigitChars == {"0","1","2","3","4","5","6","7","8","9"}
AlphaChars == LowerChars \cup UpperChars
AlnumChars == AlphaChars \cup DigitChars

\* <first>[rest]{atLeast,}
ClassWord(s, first, rest, atLeast) ==
    /\ Len(s) >= 1 + atLeast
    /\ s[1] \in first
    /\ \A k \in 2..Len(s) : s[k] \in rest

RECURSIVE JoinSlash(_)
JoinSlash(segs) ==
    IF segs = <<>> THEN <<>> ELSE <<"/">> \o Head(segs) \o JoinSlash(Tail(segs))

gitSuffix == <<".","g","i","t">>

MatchVersionBody(body) ==
    /\ Len(body) >= 2
    /\ body[1] = "v"
    /\ Len(Split(Tail(body), ".")) <= 3
    /\ \A part \in Range(Split(Tail(body), ".")) : ParseVersionPart(part) >= 0

\* (?:v0|v[1-9][0-9]*)(?:\.0|\.[1-9][0-9]*){0,2}(?:-unstable)?
MatchVersionRe(s) == MatchVersionBody(TrimSuffix(s, UnstableSuffix))

NoMatch == <<>>

\* the "." of t that end a name and start a version
NameVersionCuts(t) ==
    {k \in 2..(Len(t) - 1) :
        /\ t[k] = "."
        /\ ClassWord(SubSeq(t, 1, k - 1), AlphaChars, AlnumChars \cup {"-", "."}, 0)
        /\ MatchVersionRe(SubSeq(t, k + 1, Len(t)))}

\* the name is greedy: the last cut
CutAt(t, k) == <<SubSeq(t, 1, k - 1), SubSeq(t, k + 1, Len(t))>>

LastCut(t, cuts) ==
    IF cuts = {} THEN NoMatch ELSE CutAt(t, CHOOSE c \in cuts : \A d \in cuts : d <= c)

\* patternNew on one segment name.version[.git]: <<name, version>>
MatchNameDotVersion(seg) ==
    LastCut(TrimSuffix(seg, gitSuffix), NameVersionCuts(TrimSuffix(seg, gitSuffix)))

FirstMatch(a, b) == IF a # NoMatch THEN a ELSE b

\* patternNew with name.version in segment k, nv its match, the subpath after it
MatchNewAt(segs, k, user, nv) ==
    IF /\ nv # NoMatch
       /\ \A n \in (k + 1)..Len(segs) :
             ClassWord(segs[n], AlnumChars, AlnumChars \cup {"-", "."}, 0)
    THEN <<user, nv[1], nv[2], JoinSlash(SubSeq(segs, k + 1, Len(segs)))>>
    ELSE NoMatch

MatchNewSegs(segs) ==
    FirstMatch(IF Len(segs) >= 2 /\ ClassWord(segs[1], AlnumChars, AlnumChars \cup {"-"}, 1)
               THEN MatchNewAt(segs, 2, segs[1], MatchNameDotVersion(segs[2]))
               ELSE NoMatch,
               MatchNewAt(segs, 1, <<>>, MatchNameDotVersion(segs[1])))

\* patternNew.FindStringSubmatch(path): <<m1, m2, m3, m4>> or NoMatch
MatchNew(path) ==
    IF path = <<>> \/ path[1] # "/" THEN NoMatch ELSE MatchNewSegs(Split(Tail(path), "/"))

\* patternOld with the version in segment k and the name in the next
MatchOldAt(segs, k, user) ==
    IF /\ Len(segs) >= k + 1
       /\ MatchVersionRe(segs[k])
       /\ ClassWord(TrimSuffix(segs[k + 1], gitSuffix), AlphaChars, AlnumChars \cup {"-"}, 0)
       /\ \A n \in (k + 2)..Len(segs) :
             ClassWord(segs[n], AlphaChars, AlnumChars \cup {"-"}, 0)
    THEN <<user, segs[k], TrimSuffix(segs[k + 1], gitSuffix),
           JoinSlash(SubSeq(segs, k + 2, Len(segs)))>>
    ELSE NoMatch

MatchOldSegs(segs) ==
    FirstMatch(IF Len(segs) >= 3 /\ ClassWord(segs[1], LowerChars \cup DigitChars,
                                             LowerChars \cup DigitChars \cup {"-"}, 1)
               THEN MatchOldAt(segs, 2, segs[1])
               ELSE NoMatch,
               MatchOldAt(segs, 1, <<>>))

\* patternOld.FindStringSubmatch(path): <<m1, m2, m3, m4>> or NoMatch
MatchOld(path) ==
    IF path = <<>> \/ path[1] # "/" THEN NoMatch ELSE MatchOldSegs(Split(Tail(path), "/"))

RECURSIVE DecDigitsOf(_)
DecDigitsOf(n) ==
    IF n < 10 THEN <<Digits[n + 1]>>
    ELSE DecDigitsOf(n \div 10) \o <<Digits[(n % 10) + 1]>>

\* Version.String: v<major>[.<minor>[.<patch>]][-unstable]
VersionString(v) ==
    <<"v">> \o DecDigitsOf(v.Major)
        \o (IF v.Minor >= 0 THEN <<".">> \o DecDigitsOf(v.Minor) ELSE <<>>)
        \o (IF v.Minor >= 0 /\ v.Patch >= 0 THEN <<".">> \o DecDigitsOf(v.Patch) ELSE <<>>)
        \o (IF v.Unstable THEN UnstableSuffix ELSE <<>>)

githubCom == <<"g","i","t","h","u","b",".","c","o","m">>
gopkgIn   == <<"g","o","p","k","g",".","i","n">>
treeMaster == <<"m","a","s","t","e","r">>

\* Repo.GitHubRoot
GitHubRoot(repo) ==
    IF repo.User = <<>>
    THEN githubCom \o <<"/","g","o","-">> \o repo.Name \o <<"/">> \o repo.Name
    ELSE githubCom \o <<"/">> \o repo.User \o <<"/">> \o repo.Name

\* Repo.GitHubTree
GitHubTree(repo) ==
    IF repo.FullVersion = InvalidVersion THEN treeMaster ELSE VersionString(repo.FullVersion)

\* SetVersions keeping the last matching version (C15 fails with it)
RECURSIVE BestOf_LastMatch(_, _, _)
BestOf_LastMatch(all, maj, full) ==
    IF all = <<>> THEN full
    ELSE LET v == Head(all)
         IN  BestOf_LastMatch(Tail(all), maj,
                    IF v.Major = maj.Major /\ v.Unstable = maj.Unstable
                    THEN v ELSE full)

\* Repo.SetVersions: AllVersions recorded, FullVersion raised over the matching ones
RECURSIVE BestOf(_, _, _)
BestOf(all, maj, full) ==
    IF all = <<>> THEN full
    ELSE LET v == Head(all)
         IN  BestOf(Tail(all), maj,
                    IF v.Major = maj.Major /\ v.Unstable = maj.Unstable /\ Less(full, v)
                    THEN v ELSE full)

SetVersions(repo, all) ==
    [repo EXCEPT !.AllVersions = all,
                 !.FullVersion = BestOf(all, repo.MajorVersion, repo.FullVersion)]

\* the first part of Vanity.handle, up to the Repo skeleton: the grammar
HandleParsed(m, old, pv) ==
    IF ~pv.ok THEN [err |-> "InvalidVersion"]
    ELSE [err  |-> "nil",
          repo |-> [User |-> m[1], Name |-> m[2], SubPath |-> m[4], OldFormat |-> old,
                    MajorVersion |-> pv.v, FullVersion |-> InvalidVersion,
                    AllVersions |-> <<>>]]

\* handle once a pattern matched: m is <<user, name, version, subpath>>
HandleMatched(m, old) ==
    IF IndexByte(m[3], ".") >= 0 THEN [err |-> "MajorOnly"]
    ELSE HandleParsed(m, old, parseVersion(m[3]))

\* handle taking the old syntax's groups in the order of the new one's, without
\* swapping name and version (C13 fails with it)
HandleOld_NoSwap(mo) ==
    IF mo = NoMatch THEN [err |-> "Unsupported"]
    ELSE HandleMatched(mo, TRUE)

\* handle when patternNew did not match: "/v2/name" <= "/name.v2"
HandleOld(mo) ==
    IF mo = NoMatch THEN [err |-> "Unsupported"]
    ELSE HandleMatched(<<mo[1], mo[3], mo[2], mo[4]>>, TRUE)

HandleNew(path, mn) ==
    IF mn # NoMatch THEN HandleMatched(mn, FALSE) ELSE HandleOld(MatchOld(path))

HandleGrammar(path) == HandleNew(path, MatchNew(path))

-----------------------------------------------------------------------------
(* The advertisements given to changeRefs: the upstream composes a stream  *)
(* of pkt-lines, <4 hex digits of length><hash> <name>[NUL caps]LF.        *)

MaxRefs == 3        \* reference lines in one advertisement

serviceLine == <<"#"," ","s","e","r","v","i","c","e","=","g","i","t","-","u","p","l","o","a","d","-","p","a","c","k">>
capsSymref  == <<"s","y","m","r","e","f","=","H","E","A","D",":","r","e","f","s","/","h","e","a","d","s","/","m","a","s","t","e","r"," ","a","g","e","n","t","=","g","i","t">>
capsTwoSymrefs == capsSymref \o <<" ","s","y","m","r","e","f","=","x",":","y">>
refBranchV1  == <<"r","e","f","s","/","h","e","a","d","s","/","v","1">>
refBranchV1u == <<"r","e","f","s","/","h","e","a","d","s","/","v","1","-","u","n","s","t","a","b","l","e">>
refTagV120   == <<"r","e","f","s","/","t","a","g","s","/","v","1",".","2",".","0">>
refTagV130   == <<"r","e","f","s","/","t","a","g","s","/","v","1",".","3",".","0">>
refTagV200   == <<"r","e","f","s","/","t","a","g","s","/","v","2",".","0",".","0">>
refTagV01    == <<"r","e","f","s","/","t","a","g","s","/","v","0",".","1">>
refTagVNext  == <<"r","e","f","s","/","t","a","g","s","/","v","n","e","x","t">>

Ver(ma, mi, pa, u) == [Major |-> ma, Minor |-> mi, Patch |-> pa, Unstable |-> u]

\* a reference line as the upstream means it: the hash is hashLen copies of hash,
\* ver is the version the name stands for (InvalidVersion: none)
RefLine(h, n, name, caps, ver) ==
    [hash |-> h, hashLen |-> n, name |-> name, caps |-> caps, ver |-> ver]

Catalog ==
    <<RefLine("9", 40, nameHEAD, <<>>, InvalidVersion),
      RefLine("9", 40, nameHEAD, capsSymref, InvalidVersion),
      RefLine("b", 40, nameMaster, <<>>, InvalidVersion),
      RefLine("c", 40, refBranchV1, <<>>, Ver(1, -1, -1, FALSE)),
      RefLine("d", 40, refTagV120, <<>>, Ver(1, 2, 0, FALSE)),
      RefLine("e", 40, refTagV120 \o peelSuffix, <<>>, Ver(1, 2, 0, FALSE)),
      RefLine("f", 40, refTagV130, <<>>, Ver(1, 3, 0, FALSE)),
      RefLine("1", 40, refTagV200, <<>>, Ver(2, 0, 0, FALSE)),
      RefLine("2", 40, refBranchV1u, <<>>, Ver(1, -1, -1, TRUE)),
      RefLine("3", 40, refTagV01, <<>>, Ver(0, 1, -1, FALSE)),
      RefLine("4", 40, refTagVNext, <<>>, InvalidVersion),
      RefLine("5", 39, refTagV130, <<>>, InvalidVersion),
      RefLine("9", 40, nameHEAD, capsTwoSymrefs, InvalidVersion),
      RefLine("#", 40, refTagV130, <<>>, Ver(1, 3, 0, FALSE))>>

LineIds == 1..Len(Catalog)

Buckets == {Ver(0, -1, -1, FALSE), Ver(1, -1, -1, FALSE), Ver(1, -1, -1, TRUE)}

HashOf(l) == [k \in 1..l.hashLen |-> l.hash]

\* the payload of a reference line
Payload(l) ==
    HashOf(l) \o <<SP>> \o l.name
        \o (IF l.caps = <<>> THEN <<>> ELSE <<NUL>> \o l.caps) \o <<LF>>

FlushPkt == <<"0", "0", "0", "0">>

RECURSIVE EncodeRefs(_)
EncodeRefs(ids) ==
    IF ids = <<>> THEN <<>>
    ELSE PktLine(Payload(Catalog[Head(ids)])) \o EncodeRefs(Tail(ids))

\* the response body: the service header when h, the references, the flush packet
Advert(h, ids) ==
    (IF h THEN PktLine(serviceLine \o <<LF>>) \o FlushPkt ELSE <<>>)
        \o EncodeRefs(ids) \o FlushPkt

-----------------------------------------------------------------------------
(* The cache, the fetcher and the resolver.                                *)

refsCacheTTL == 60      \* seconds

TickStep == 30          \* seconds the clock advances in one step
MaxTime  == 90          \* the clock stops here
MaxCalls == 3           \* ReplaceVanity calls in one behaviour

Procs == {1, 2}

pathYamlV2  == <<"g","o","p","k","g",".","i","n","/","y","a","m","l",".","v","2">>
pathV1Yaml  == <<"g","o","p","k","g",".","i","n","/","v","1","/","y","a","m","l">>
pathCheckV1 == <<"g","o","p","k","g",".","i","n","/","g","o","-","c","h","e","c","k","/","c","h","e","c","k",".","v","1">>
pathPkgV21  == <<"g","o","p","k","g",".","i","n","/","p","k","g",".","v","2",".","1">>
pathYaml    == <<"g","o","p","k","g",".","i","n","/","y","a","m","l">>
pathV2Yaml  == <<"g","o","p","k","g",".","i","n","/","v","2","/","y","a","m","l">>
pathYamlV0  == <<"g","o","p","k","g",".","i","n","/","y","a","m","l",".","v","0">>

\* the paths given to ReplaceVanity
Paths == <<pathYamlV2, pathV1Yaml, pathCheckV1, pathPkgV21, pathYaml, pathV2Yaml,
          pathYamlV0>>

\* strings.Replace(s, old, new, 1)
RECURSIVE ReplaceFirst(_, _, _)
ReplaceFirst(s, old, new) ==
    IF Len(s) < Len(old) THEN s
    ELSE IF HasPrefix(s, old) THEN new \o SubSeq(s, Len(old) + 1, Len(s))
    ELSE <<s[1]>> \o ReplaceFirst(Tail(s), old, new)

\* ReplaceVanity's first lines and handle's grammar, per path
Grammar == [i \in 1..Len(Paths) |-> HandleGrammar(ReplaceFirst(Paths[i], gopkgIn, <<>>))]

Roots == {GitHubRoot(Grammar[i].repo) : i \in {j \in 1..Len(Paths) : Grammar[j].err = "nil"}}

\* the bodies the upstream answers a 200 with
Bodies ==
    <<Advert(TRUE, <<2, 3, 7, 5, 8>>),                \* HEAD, master, v1.3.0, v1.2.0, v2.0.0
      Advert(TRUE, <<1, 3>>),                         \* HEAD and master only
      SubSeq(Advert(TRUE, <<1, 7>>), 1, 60),          \* cut inside the HEAD line
      SubSeq(Advert(TRUE, <<1, 7>>), 1, 36)>>         \* cut inside a length prefix

BodyIds == 1..Len(Bodies)

\* what one outbound request ends with: a status, a client timeout, another
\* transport error, or a 200 whose body cannot be read
Outcomes == {"200", "401", "404", "500", "timeout", "neterr", "readerr"}

NoEntry == [refs |-> 0, timestamp |-> -1]

NoLocals ==
    [path |-> 0, repo |-> <<>>, attempt |-> 0, tget |-> -1, fetched |-> 0,
     original |-> 0, hit |-> FALSE, closes |-> 0, err |-> "nil", outs |-> <<>>,
     ret |-> <<>>]

\* per root: the fetchRefs calls that got a 200 (oks), those answered from the
\* cache (hits), and when the last 200 was handed to setRefs (last, -1: never)
NoHistory == [oks |-> 0, hits |-> 0, last |-> -1]

\* the state of the resolver's variables with nothing running
FetchIdle ==
    /\ refsCache = [r \in Roots |-> NoEntry]
    /\ now = 0
    /\ calls = [r \in Roots |-> 0]
    /\ started = 0
    /\ pc = [p \in Procs |-> "off"]
    /\ loc = [p \in Procs |-> NoLocals]
    /\ hist = [r \in Roots |-> NoHistory]

\* the rewriter's variables when only the resolver runs
RefsIdle ==
    /\ ad = <<>> /\ hdr = FALSE /\ data = <<>> /\ major = InvalidVersion
    /\ phase = "off" /\ res = NoResult /\ res2 = NoResult /\ rrepo = <<>>

\* getRefs without the expiry test (C7 fails with it)
getRefs_NeverExpires(rc, root, t) ==
    IF rc[root] # NoEntry THEN rc[root].refs ELSE 0

\* getRefs answering up to and including the TTL (C21 fails with it)
getRefs_InclusiveTTL(rc, root, t) ==
    IF rc[root] # NoEntry /\ t - rc[root].timestamp <= refsCacheTTL
    THEN rc[root].refs
    ELSE 0

\* getRefs(root) at time t: the body held, or 0 for nil
getRefs(rc, root, t) ==
    IF rc[root] # NoEntry /\ t - rc[root].timestamp < refsCacheTTL
    THEN rc[root].refs
    ELSE 0

\* setRefs without the refresh guard (C20 fails with it)
setRefs_AlwaysWrites(rc, root, refs, t) ==
    [rc EXCEPT ![root] = [refs |-> refs, timestamp |-> t]]

\* setRefs(root, refs) at time t: the cache after it
setRefs(rc, root, refs, t) ==
    IF rc[root] # NoEntry /\ t - rc[root].timestamp < refsCacheTTL
    THEN rc
    ELSE [rc EXCEPT ![root] = [refs |-> refs, timestamp |-> t]]

\* fetchRefs reporting 401/404 like any other status (C11 fails with it)
FetchError_NoRepoAsUpstream(outcome) ==
    CASE outcome = "timeout" -> "ErrTimeout"
      [] outcome = "neterr"  -> "NetError"
      [] outcome = "readerr" -> "ReadError"
      [] OTHER -> "UpstreamError"

\* the error fetchRefs returns for an outcome other than a readable 200
FetchError(outcome) ==
    CASE outcome = "timeout" -> "ErrTimeout"
      [] outcome = "neterr"  -> "NetError"
      [] outcome \in {"401", "404"} -> "ErrNoRepo"
      [] outcome = "readerr" -> "ReadError"
      [] OTHER -> "UpstreamError"

\* handle retrying after any failed fetchRefs (C8 fails with it)
Retries_AnyError(err, attempt) == err # "nil" /\ attempt = 1

\* handle: whether a failed fetchRefs is called again
Retries(err, attempt) == err = "ErrTimeout" /\ attempt = 1

\* handle returning the error it holds (C10 fails with it)
HandleReturn_WithErr(repo, err) == [repo |-> repo, err |-> err]

\* handle's return statement, whatever err holds
HandleReturn(repo, err) == [repo |-> repo, err |-> "nil"]

\* ReplaceVanity appending the major from 1 on (C14 fails with it)
ReplaceVanityResult_MajorFromOne(h) ==
    IF h.err # "nil" THEN [module |-> <<>>, version |-> <<>>, err |-> h.err]
    ELSE IF h.repo.MajorVersion.Major >= 1
         THEN [module  |-> GitHubRoot(h.repo) \o <<"/">> \o VersionString(h.repo.MajorVersion),
               version |-> GitHubTree(h.repo), err |-> "nil"]
         ELSE [module |-> GitHubRoot(h.repo), version |-> GitHubTree(h.repo), err |-> "nil"]

\* ReplaceVanity after handle returned
ReplaceVanityResult(h) ==
    IF h.err # "nil" THEN [module |-> <<>>, version |-> <<>>, err |-> h.err]
    ELSE IF h.repo.MajorVersion.Major > 1
         THEN [module  |-> GitHubRoot(h.repo) \o <<"/">> \o VersionString(h.repo.MajorVersion),
               version |-> GitHubTree(h.repo), err |-> "nil"]
         ELSE [module |-> GitHubRoot(h.repo), version |-> GitHubTree(h.repo), err |-> "nil"]

RootOf(p) == GitHubRoot(loc[p].repo)

\* ReplaceVanity(path): the prefix is removed and handle runs the grammar; the
\* path is ReplaceMod's when the dispatcher calls (replacement.go:99)
Call(p, i) ==
    /\ pc[p] = "idle"
    /\ \/ mpc[p] = "off"
       \/ mpc[p] = "plugin" /\ Paths[i] = mloc[p].path
    /\ started < MaxCalls
    /\ started' = started + 1
    /\ IF Grammar[i].err # "nil"
       THEN /\ loc' = [loc EXCEPT ![p] = [NoLocals EXCEPT !.path = i,
                          !.ret = ReplaceVanityResult([repo |-> <<>>, err |-> Grammar[i].err])]]
            /\ pc' = [pc EXCEPT ![p] = "done"]
       ELSE /\ loc' = [loc EXCEPT ![p] = [NoLocals EXCEPT !.path = i,
                          !.repo = Grammar[i].repo, !.attempt = 1]]
            /\ pc' = [pc EXCEPT ![p] = "getRefs"]
    /\ UNCHANGED <<refsCache, now, calls, hist>>
    /\ UNCHANGED <<rvars, dvars>>

\* fetchRefs, its cache lookup: a hit returns the entry
FetchGetRefs(p) ==
    /\ pc[p] = "getRefs"
    /\ LET refs == getRefs(refsCache, RootOf(p), now)
       IN  IF refs # 0
           THEN /\ loc' = [loc EXCEPT ![p].original = refs, ![p].tget = now, ![p].hit = TRUE]
                /\ pc' = [pc EXCEPT ![p] = "changeRefs"]
                /\ hist' = [hist EXCEPT ![RootOf(p)].hits = @ + 1]
           ELSE /\ loc' = [loc EXCEPT ![p].tget = now]
                /\ pc' = [pc EXCEPT ![p] = "httpGet"]
                /\ hist' = hist
    /\ UNCHANGED <<refsCache, now, calls, started>>
    /\ UNCHANGED <<rvars, dvars>>

\* fetchRefs, httpClient.Get and the status switch; on an error handle goes on:
\* it retries after a timeout, or returns the repo
FetchHttpGet(p, outcome, body) ==
    /\ pc[p] = "httpGet"
    /\ calls' = [calls EXCEPT ![RootOf(p)] = @ + 1]
    /\ IF outcome = "200"
       THEN /\ loc' = [loc EXCEPT ![p].fetched = body, ![p].outs = Append(@, outcome)]
            /\ pc' = [pc EXCEPT ![p] = "setRefs"]
       ELSE /\ IF Retries(FetchError(outcome), loc[p].attempt)
               THEN /\ loc' = [loc EXCEPT ![p].attempt = @ + 1, ![p].closes = @ + 1,
                                          ![p].outs = Append(@, outcome)]
                    /\ pc' = [pc EXCEPT ![p] = "getRefs"]
               ELSE /\ loc' = [loc EXCEPT ![p].err = FetchError(outcome),
                                          ![p].outs = Append(@, outcome),
                                          ![p].ret = ReplaceVanityResult(
                                              HandleReturn(loc[p].repo, FetchError(outcome)))]
                    /\ pc' = [pc EXCEPT ![p] = "done"]
    /\ UNCHANGED <<refsCache, now, started, hist>>
    /\ UNCHANGED <<rvars, dvars>>

\* fetchRefs, after a 200: setRefs(root, data), and data is returned
FetchSetRefs(p) ==
    /\ pc[p] = "setRefs"
    /\ refsCache' = setRefs(refsCache, RootOf(p), loc[p].fetched, now)
    /\ loc' = [loc EXCEPT ![p].original = loc[p].fetched]
    /\ pc' = [pc EXCEPT ![p] = "changeRefs"]
    /\ hist' = [hist EXCEPT ![RootOf(p)].oks = @ + 1, ![RootOf(p)].last = now]
    /\ UNCHANGED <<now, calls, started>>
    /\ UNCHANGED <<rvars, dvars>>

\* changeRefs(original, repo.MajorVersion), for the bodies and the buckets in play
RequestedBuckets == {Grammar[i].repo.MajorVersion : i \in {j \in 1..Len(Paths) : Grammar[j].err = "nil"}}

RewriteTable == [b \in BodyIds |-> [m \in RequestedBuckets |-> changeRefs(Bodies[b], m)]]

\* handle, after a successful fetchRefs: changeRefs, SetVersions, return;
\* ReplaceVanity then builds the redirect target and the tree label
HandleChangeRefs(p) ==
    /\ pc[p] = "changeRefs"
    /\ LET r    == RewriteTable[loc[p].original][loc[p].repo.MajorVersion]
           repo == SetVersions(loc[p].repo, r.versions)
       IN  IF r.kind = "panic"
           THEN /\ pc' = [pc EXCEPT ![p] = "panicked"]
                /\ loc' = loc
           ELSE /\ pc' = [pc EXCEPT ![p] = "done"]
                /\ loc' = [loc EXCEPT ![p].repo = repo,
                                      ![p].err = IF r.kind = "error" THEN r.err ELSE "nil",
                                      ![p].ret = ReplaceVanityResult(HandleReturn(repo, r.err))]
    /\ UNCHANGED <<refsCache, now, calls, started, hist>>
    /\ UNCHANGED <<rvars, dvars>>

\* the call is over (returned, or the goroutine's panic was recovered)
Return(p) ==
    /\ pc[p] \in {"done", "panicked"}
    /\ mpc[p] = "off"
    /\ pc' = [pc EXCEPT ![p] = "idle"]
    /\ loc' = [loc EXCEPT ![p] = NoLocals]
    /\ UNCHANGED <<refsCache, now, calls, started, hist>>
    /\ UNCHANGED <<rvars, dvars>>

\* time passes
Tick ==
    /\ now + TickStep <= MaxTime
    /\ now' = now + TickStep
    /\ UNCHANGED <<refsCache, calls, started, pc, loc, hist>>
    /\ UNCHANGED <<rvars, dvars>>

-----------------------------------------------------------------------------
(* The dispatcher: the rule table, its cache under cacheMux, ReplaceMod    *)
(* and Restore.                                                            *)

MaxModCalls == 2        \* requests the one goroutine of SpecMod serves
ConcCalls   == 1        \* requests each goroutine of SpecConc serves

pathExampleLib == <<"e","x",".","o","r","g","/","l","i","b">>
pathCorpTool   == <<"c","o","r","p",".","i","o","/","t">>
pathGitHubAB   == <<"g","i","t","h","u","b",".","c","o","m","/","a","/","b">>

\* the paths the requests name
ModPaths == Range(Paths) \cup {pathExampleLib, pathCorpTool, pathGitHubAB}

\* mux.Vars(req)["version"]
ReqVersions == {<<"v","2",".","0",".","0">>}

\* the rule table read from the configuration, in its order
replacements ==
    <<[Vanity |-> gopkgIn, Replacement |-> <<>>, Plugin |-> "gopkg.in"],
      [Vanity |-> gopkgIn \o <<"/","y","a","m","l">>,
       Replacement |-> githubCom \o <<"/","o","/","y","a","m","l">>, Plugin |-> ""],
      [Vanity |-> <<"e","x",".","o","r","g">>,
       Replacement |-> githubCom \o <<"/","e","x">>, Plugin |-> ""],
      [Vanity |-> <<"c","o","r","p",".","i","o">>,
       Replacement |-> githubCom \o <<"/","c","o","r","p">>, Plugin |-> "corp"]>>

\* the resolvers initializePlugin knows
plugins == {"gopkg.in"}

NoRecord == [vanityModule |-> <<>>, vanityVersion |-> <<>>, replModule |-> <<>>,
             replVersion |-> <<>>, set |-> FALSE]

NewEntry(path, ver, repl, rver) ==
    [vanityModule |-> path, vanityVersion |-> ver, replModule |-> repl,
     replVersion |-> rver, set |-> TRUE]

NoModLocals ==
    [op |-> "none", path |-> <<>>, ver |-> <<>>, e |-> NoRecord, ret |-> <<>>,
     ok |-> FALSE, hit |-> FALSE, rule |-> 0, resolved |-> FALSE, failed |-> FALSE]

NoLock == [writer |-> 0, readers |-> {}]

\* updateCache's assignment cache[key] = value
updateCache(c, key, value) ==
    [k \in (DOMAIN c) \cup {key} |-> IF k = key THEN value ELSE c[k]]

\* e, ok := cache[key]
readCache(c, key) ==
    IF key \in DOMAIN c THEN [e |-> c[key], ok |-> TRUE] ELSE [e |-> NoRecord, ok |-> FALSE]

\* Restore(path): the vanity path of the record under path, or path and false
Restore(c, path) ==
    IF readCache(c, path).ok
    THEN [path |-> readCache(c, path).e.vanityModule, ok |-> TRUE]
    ELSE [path |-> path, ok |-> FALSE]

RuleMatches(path) ==
    {idx \in 1..Len(replacements) : HasPrefix(path, replacements[idx].Vanity)}

\* the rule scan taking the last matching rule (C19 fails with it)
FirstRule_Last(path) ==
    IF RuleMatches(path) = {} THEN 0
    ELSE CHOOSE x \in RuleMatches(path) : \A y \in RuleMatches(path) : y <= x

\* for idx := range replacements: the first rule whose Vanity prefixes path, 0 if none
FirstRule(path) ==
    IF RuleMatches(path) = {} THEN 0 ELSE MinOf(RuleMatches(path))

\* the rule names a resolver that is registered
UsesPlugin(idx) ==
    replacements[idx].Plugin # "" /\ replacements[idx].Plugin \in plugins

\* the record of a plain replacement
PlainEntry(path, ver, idx) ==
    NewEntry(path, ver,
             ReplaceFirst(path, replacements[idx].Vanity, replacements[idx].Replacement),
             ver)

\* ReplaceMod after a miss: the rule scan
DispatchRule(path, ver, idx) ==
    IF idx = 0
    THEN [next |-> "mdone", ret |-> path, e |-> NoRecord, hit |-> FALSE, rule |-> 0]
    ELSE IF UsesPlugin(idx)
    THEN [next |-> "plugin", ret |-> <<>>, e |-> NoRecord, hit |-> FALSE, rule |-> idx]
    ELSE [next |-> "lock1", ret |-> PlainEntry(path, ver, idx).replModule,
          e |-> PlainEntry(path, ver, idx), hit |-> FALSE, rule |-> idx]

\* ReplaceMod from its first line, r being what cache[path] gave
DispatchRead(path, ver, r) ==
    IF r.ok
    THEN [next |-> "mdone", ret |-> r.e.replModule, e |-> NoRecord, hit |-> TRUE, rule |-> 0]
    ELSE DispatchRule(path, ver, FirstRule(path))

\* ReplaceMod caching what a failed resolver returned (C17 fails with it)
AfterPlugin_CachesOnError(path, ver, r) ==
    [next |-> "lock1", ret |-> r.module, e |-> NewEntry(path, ver, r.module, r.version)]

\* ReplaceMod after plugin.ReplaceVanity returned r
AfterPlugin(path, ver, r) ==
    IF r.err # "nil"
    THEN [next |-> "mdone", ret |-> path, e |-> NoRecord]
    ELSE [next |-> "lock1", ret |-> r.module, e |-> NewEntry(path, ver, r.module, r.version)]

\* the second record written under the vanity path again (C16 fails with it)
SecondKey_Vanity(e) == e.vanityModule

\* the key of the second updateCache
SecondKey(e) == e.replModule

\* the map as a read sees it that runs while goroutine w is inside updateCache:
\* before the assignment or after it
RacedCache(w, o) ==
    IF o = "after"
    THEN updateCache(cache, IF mpc[w] = "write1" THEN mloc[w].path ELSE SecondKey(mloc[w].e),
                     mloc[w].e)
    ELSE cache

\* what a read of the map without the lock ends with: it sees the map; while a
\* writer is inside updateCache it may see the map before or after the
\* assignment, or the runtime stops the program (concurrent map read and write)
RaceOutcomes == {"seen", "after", "fatal"}

\* a request calls ReplaceMod(path, req)
ModCall(p, path, ver) ==
    /\ mpc[p] = "idle"
    /\ budget[p] > 0
    /\ budget' = [budget EXCEPT ![p] = @ - 1]
    /\ mloc' = [mloc EXCEPT ![p] = [NoModLocals EXCEPT !.op = "ReplaceMod",
                                                      !.path = path, !.ver = ver]]
    /\ mpc' = [mpc EXCEPT ![p] = "lookup"]
    /\ UNCHANGED <<cache, cacheMux>>
    /\ UNCHANGED <<rvars, fvars>>

\* ReplaceMod: cache[path] read with no lock held, then the rule scan
ModLookup(p, o) ==
    /\ mpc[p] = "lookup"
    /\ o = "seen" \/ cacheMux.writer \notin {0, p}
    /\ IF o = "fatal"
       THEN /\ mpc' = [q \in Procs |-> "fatal"]
            /\ mloc' = mloc
       ELSE LET d == DispatchRead(mloc[p].path, mloc[p].ver,
                         readCache(IF o = "seen" THEN cache
                                   ELSE RacedCache(cacheMux.writer, o), mloc[p].path))
            IN  /\ mpc' = [mpc EXCEPT ![p] = d.next]
                /\ mloc' = [mloc EXCEPT ![p].ret = d.ret, ![p].e = d.e,
                                        ![p].hit = d.hit, ![p].rule = d.rule]
    /\ UNCHANGED <<cache, cacheMux, budget>>
    /\ UNCHANGED <<rvars, fvars>>

\* ReplaceMod after plugin.ReplaceVanity returned
ModPluginReturn(p) ==
    /\ mpc[p] = "plugin"
    /\ pc[p] = "done"
    /\ LET d == AfterPlugin(mloc[p].path, mloc[p].ver, loc[p].ret)
       IN  /\ mpc' = [mpc EXCEPT ![p] = d.next]
           /\ mloc' = [mloc EXCEPT ![p].ret = d.ret, ![p].e = d.e, ![p].resolved = TRUE]
    /\ pc' = [pc EXCEPT ![p] = "idle"]
    /\ loc' = [loc EXCEPT ![p] = NoLocals]
    /\ UNCHANGED <<cache, cacheMux, budget>>
    /\ UNCHANGED <<refsCache, now, calls, started, hist>>
    /\ UNCHANGED rvars

\* plugin.ReplaceVanity panicked: the panic leaves ReplaceMod, the request fails
ModPluginPanic(p) ==
    /\ mpc[p] = "plugin"
    /\ pc[p] = "panicked"
    /\ mpc' = [mpc EXCEPT ![p] = "mdone"]
    /\ mloc' = [mloc EXCEPT ![p].resolved = TRUE, ![p].failed = TRUE]
    /\ pc' = [pc EXCEPT ![p] = "idle"]
    /\ loc' = [loc EXCEPT ![p] = NoLocals]
    /\ UNCHANGED <<cache, cacheMux, budget>>
    /\ UNCHANGED <<refsCache, now, calls, started, hist>>
    /\ UNCHANGED rvars

\* updateCache: cacheMux.Lock()
ModLock(p) ==
    /\ mpc[p] \in {"lock1", "lock2"}
    /\ cacheMux = NoLock
    /\ cacheMux' = [cacheMux EXCEPT !.writer = p]
    /\ mpc' = [mpc EXCEPT ![p] = IF mpc[p] = "lock1" THEN "write1" ELSE "write2"]
    /\ UNCHANGED <<cache, mloc, budget>>
    /\ UNCHANGED <<rvars, fvars>>

\* updateCache: cache[key] = value, cacheMux.Unlock(); the first call writes
\* under path, the second under newE.replModule, and ReplaceMod returns
ModWrite(p) ==
    /\ mpc[p] \in {"write1", "write2"}
    /\ cache' = updateCache(cache,
                            IF mpc[p] = "write1" THEN mloc[p].path ELSE SecondKey(mloc[p].e),
                            mloc[p].e)
    /\ cacheMux' = [cacheMux EXCEPT !.writer = 0]
    /\ mpc' = [mpc EXCEPT ![p] = IF mpc[p] = "write1" THEN "lock2" ELSE "mdone"]
    /\ UNCHANGED <<mloc, budget>>
    /\ UNCHANGED <<rvars, fvars>>

\* a request calls Restore(path)
ModRestore(p, path) ==
    /\ mpc[p] = "idle"
    /\ budget[p] > 0
    /\ budget' = [budget EXCEPT ![p] = @ - 1]
    /\ mloc' = [mloc EXCEPT ![p] = [NoModLocals EXCEPT !.op = "Restore", !.path = path]]
    /\ mpc' = [mpc EXCEPT ![p] = "rlock"]
    /\ UNCHANGED <<cache, cacheMux>>
    /\ UNCHANGED <<rvars, fvars>>

\* readCache: cacheMux.RLock()
ModRLock(p) ==
    /\ mpc[p] = "rlock"
    /\ cacheMux.writer = 0
    /\ cacheMux' = [cacheMux EXCEPT !.readers = @ \cup {p}]
    /\ mpc' = [mpc EXCEPT ![p] = "rread"]
    /\ UNCHANGED <<cache, mloc, budget>>
    /\ UNCHANGED <<rvars, fvars>>

\* readCache: e, ok := cache[key], cacheMux.RUnlock(); Restore returns
ModRRead(p) ==
    /\ mpc[p] = "rread"
    /\ mloc' = [mloc EXCEPT ![p].ret = Restore(cache, mloc[p].path).path,
                            ![p].ok = Restore(cache, mloc[p].path).ok]
    /\ cacheMux' = [cacheMux EXCEPT !.readers = @ \ {p}]
    /\ mpc' = [mpc EXCEPT ![p] = "mdone"]
    /\ UNCHANGED <<cache, budget>>
    /\ UNCHANGED <<rvars, fvars>>

\* the request is over
ModReturn(p) ==
    /\ mpc[p] = "mdone"
    /\ mpc' = [mpc EXCEPT ![p] = "idle"]
    /\ mloc' = [mloc EXCEPT ![p] = NoModLocals]
    /\ UNCHANGED <<cache, cacheMux, budget>>
    /\ UNCHANGED <<rvars, fvars>>

\* the dispatcher's variables when no request goes through it
DispatchOff ==
    /\ cache = [k \in {} |-> NoRecord]
    /\ cacheMux = NoLock
    /\ mpc = [p \in Procs |-> "off"]
    /\ mloc = [p \in Procs |-> NoModLocals]
    /\ budget = [p \in Procs |-> 0]

\* the dispatcher after init(), goroutine p serving n(p) requests
DispatchInit(n) ==
    /\ RefsIdle
    /\ refsCache = [r \in Roots |-> NoEntry]
    /\ now = 0
    /\ calls = [r \in Roots |-> 0]
    /\ started = 0
    /\ pc = [p \in Procs |-> "idle"]
    /\ loc = [p \in Procs |-> NoLocals]
    /\ hist = [r \in Roots |-> NoHistory]
    /\ cache = [k \in {} |-> NoRecord]
    /\ cacheMux = NoLock
    /\ mpc = [p \in Procs |-> "idle"]
    /\ mloc = [p \in Procs |-> NoModLocals]
    /\ budget = n

\* one goroutine: the requests come one after another
InitMod == DispatchInit([p \in Procs |-> IF p = 1 THEN MaxModCalls ELSE 0])

\* one goroutine per request, all running
InitConc == DispatchInit([p \in Procs |-> ConcCalls])

NextMod ==
    \/ \E p \in Procs : \E path \in ModPaths \cup DOMAIN cache :
           \E ver \in ReqVersions : ModCall(p, path, ver)
    \/ \E p \in Procs : \E o \in RaceOutcomes : ModLookup(p, o)
    \/ \E p \in Procs : \E i \in 1..Len(Paths) : Call(p, i)
    \/ \E p \in Procs : FetchGetRefs(p)
    \/ \E p \in Procs : \E o \in Outcomes : \E b \in BodyIds : FetchHttpGet(p, o, b)
    \/ \E p \in Procs : FetchSetRefs(p)
    \/ \E p \in Procs : HandleChangeRefs(p)
    \/ \E p \in Procs : ModPluginReturn(p)
    \/ \E p \in Procs : ModPluginPanic(p)
    \/ \E p \in Procs : ModLock(p)
    \/ \E p \in Procs : ModWrite(p)
    \/ \E p \in Procs : \E path \in ModPaths \cup DOMAIN cache : ModRestore(p, path)
    \/ \E p \in Procs : ModRLock(p)
    \/ \E p \in Procs : ModRRead(p)
    \/ \E p \in Procs : ModReturn(p)
    \/ Tick

SpecMod == InitMod /\ [][NextMod]_vars

\* what the requests of SpecConc name, and what the upstream answers them
ConcPaths    == {pathYamlV2, pathV1Yaml, pathExampleLib}
ConcOutcomes == {"200", "404", "timeout"}
ConcBodies   == {1, 2, 4}

NextConc ==
    \/ \E p \in Procs : \E path \in ConcPaths \cup DOMAIN cache :
           \E ver \in ReqVersions : ModCall(p, path, ver)
    \/ \E p \in Procs : \E o \in RaceOutcomes : ModLookup(p, o)
    \/ \E p \in Procs : \E i \in 1..Len(Paths) : Call(p, i)
    \/ \E p \in Procs : FetchGetRefs(p)
    \/ \E p \in Procs : \E o \in ConcOutcomes : \E b \in ConcBodies : FetchHttpGet(p, o, b)
    \/ \E p \in Procs : FetchSetRefs(p)
    \/ \E p \in Procs : HandleChangeRefs(p)
    \/ \E p \in Procs : ModPluginReturn(p)
    \/ \E p \in Procs : ModPluginPanic(p)
    \/ \E p \in Procs : ModLock(p)
    \/ \E p \in Procs : ModWrite(p)
    \/ \E p \in Procs : \E path \in ConcPaths \cup DOMAIN cache : ModRestore(p, path)
    \/ \E p \in Procs : ModRLock(p)
    \/ \E p \in Procs : ModRRead(p)
    \/ \E p \in Procs : ModReturn(p)
    \/ Tick

SpecConc == InitConc /\ [][NextConc]_vars

\* one goroutine: the ReplaceVanity calls come one after another
Init ==
    /\ RefsIdle
    /\ DispatchOff
    /\ refsCache = [r \in Roots |-> NoEntry]
    /\ now = 0
    /\ calls = [r \in Roots |-> 0]
    /\ started = 0
    /\ pc = [p \in Procs |-> IF p = 1 THEN "idle" ELSE "off"]
    /\ loc = [p \in Procs |-> NoLocals]
    /\ hist = [r \in Roots |-> NoHistory]

Next ==
    \/ \E p \in Procs : \E i \in 1..Len(Paths) : Call(p, i)
    \/ \E p \in Procs : FetchGetRefs(p)
    \/ \E p \in Procs : \E o \in Outcomes : \E b \in BodyIds : FetchHttpGet(p, o, b)
    \/ \E p \in Procs : FetchSetRefs(p)
    \/ \E p \in Procs : HandleChangeRefs(p)
    \/ \E p \in Procs : Return(p)
    \/ Tick

Spec == Init /\ [][Next]_vars

SeqsUpTo(S, n) == UNION {[1..k -> S] : k \in 0..n}

\* the Repo handle has built when it calls changeRefs for the bucket maj
RepoFor(maj) ==
    [User |-> <<>>, Name |-> <<>>, SubPath |-> <<>>, OldFormat |-> FALSE,
     MajorVersion |-> maj, FullVersion |-> InvalidVersion, AllVersions |-> <<>>]

InitRefs ==
    /\ FetchIdle
    /\ DispatchOff
    /\ ad \in SeqsUpTo(LineIds, MaxRefs)
    /\ hdr \in BOOLEAN
    /\ major \in Buckets
    /\ data = Advert(hdr, ad)
    /\ phase = "input"
    /\ res = NoResult
    /\ res2 = NoResult
    /\ rrepo = RepoFor(major)

\* changed, versions, err = changeRefs(data, major); repo.SetVersions(versions)
CallChangeRefs ==
    /\ phase = "input"
    /\ res' = changeRefs(data, major)
    /\ rrepo' = IF res'.kind = "panic" THEN rrepo ELSE SetVersions(rrepo, res'.versions)
    /\ phase' = "rewritten"
    /\ UNCHANGED <<ad, hdr, data, major, res2>>
    /\ UNCHANGED <<fvars, dvars>>

\* the rewritten advertisement rewritten once more for the same bucket
CallChangeRefsAgain ==
    /\ phase = "rewritten"
    /\ res.kind = "ok"
    /\ res2' = changeRefs(res.changed, major)
    /\ phase' = "again"
    /\ UNCHANGED <<ad, hdr, data, major, res, rrepo>>
    /\ UNCHANGED <<fvars, dvars>>

NextRefs == CallChangeRefs \/ CallChangeRefsAgain

SpecRefs == InitRefs /\ [][NextRefs]_vars

-----------------------------------------------------------------------------
(* What the upstream meant by an advertisement, read off its composition   *)
(* (ad, hdr), and what a consumer reads in a rewritten one.                *)

LineAt(k) == Catalog[ad[k]]

\* a reference entry: a 40-character hash, a space, a name
IsEntry(k) == LineAt(k).hashLen = HashLen

HeadAt == {k \in 1..Len(ad) : IsEntry(k) /\ LineAt(k).name = nameHEAD}

MasterAt == {k \in 1..Len(ad) : IsEntry(k) /\ LineAt(k).name = nameMaster}

VersionedAt == {k \in 1..Len(ad) : IsEntry(k) /\ LineAt(k).ver # InvalidVersion}

\* the references whose version is in the requested bucket
MatchingAt ==
    {k \in VersionedAt : LineAt(k).ver.Major = major.Major
                         /\ LineAt(k).ver.Unstable = major.Unstable}

\* a is at most b: by major, then minor, then patch
VerLeq(a, b) ==
    \/ a.Major < b.Major
    \/ a.Major = b.Major /\ a.Minor < b.Minor
    \/ a.Major = b.Major /\ a.Minor = b.Minor /\ a.Patch <= b.Patch

\* the references carrying the greatest matching version
GreatestAt == {k \in MatchingAt : \A m \in MatchingAt : VerLeq(LineAt(m).ver, LineAt(k).ver)}

\* the last of them in stream order
LastGreatest == CHOOSE k \in GreatestAt : \A m \in GreatestAt : m <= k

\* the protocol's shape: the service header first, HEAD the first reference,
\* every line a reference entry, no name twice
WellFormed ==
    /\ hdr
    /\ \A k \in 1..Len(ad) : IsEntry(k)
    /\ \A k \in HeadAt : k = 1
    /\ \A k, m \in 1..Len(ad) : LineAt(k).name = LineAt(m).name => k = m

RECURSIVE VersionsFrom(_)
VersionsFrom(k) ==
    IF k > Len(ad) THEN <<>>
    ELSE (IF k \in VersionedAt THEN <<LineAt(k).ver>> ELSE <<>>) \o VersionsFrom(k + 1)

\* the payloads of the pkt-lines of a stream (up to the first malformed length)
RECURSIVE PktPayloads(_)
PktPayloads(b) ==
    IF Len(b) < 4 \/ \E k \in 1..4 : ~IsHexDigit(b[k]) THEN <<>>
    ELSE LET n    == HexNum(SubSeq(b, 1, 4))
             size == IF n = 0 THEN 4 ELSE n
         IN  IF size < 4 \/ size > Len(b) THEN <<>>
             ELSE <<SubSeq(b, 5, size)>> \o PktPayloads(SubSeq(b, size + 1, Len(b)))

\* the name of a reference line's payload (<<>> when it is no reference entry)
EntryName(p) ==
    IF Len(p) > HashLen /\ p[HashLen + 1] = SP /\ \A k \in 1..HashLen : p[k] # SP
    THEN LET rest == SubSeq(p, HashLen + 2, Len(p))
             e    == IndexAny(rest, {LF, NUL})
         IN  IF e < 0 THEN rest ELSE SubSeq(rest, 1, e)
    ELSE <<>>

EntryHash(p) == SubSeq(p, 1, HashLen)

\* the hashes of the lines of stream b that are named name, as a sequence
HashesNamed(b, name) ==
    LET ps == PktPayloads(b)
        RECURSIVE pick(_)
        pick(k) == IF k > Len(ps) THEN <<>>
                   ELSE (IF EntryName(ps[k]) = name THEN <<EntryHash(ps[k])>> ELSE <<>>)
                        \o pick(k + 1)
    IN  pick(1)

Rewritten == phase # "input"

-----------------------------------------------------------------------------
(* C1..C6: the rewriter.  Checked under SpecRefs.                          *)

\* C1: for a well-formed advertisement with a HEAD line and at least one reference
\* whose version is in the requested bucket, changeRefs succeeds and its output has
\* exactly one line named HEAD and exactly one named refs/heads/master, both with
\* the hash of a reference carrying the greatest matching version.
C1_OneHeadOneMasterAtGreatest ==
    (Rewritten /\ WellFormed /\ HeadAt # {} /\ MatchingAt # {}) =>
        /\ res.kind = "ok"
        /\ LET hs == HashesNamed(res.changed, nameHEAD)
               ms == HashesNamed(res.changed, nameMaster)
           IN  /\ Len(hs) = 1
               /\ Len(ms) = 1
               /\ \E k \in GreatestAt : hs[1] = HashOf(LineAt(k)) /\ ms[1] = HashOf(LineAt(k))

\* a well-formed advertisement with HEAD and two matching references, rewritten
C1_Witness ==
    /\ Rewritten /\ WellFormed /\ HeadAt # {}
    /\ Cardinality(MatchingAt) >= 2
    /\ res.kind = "ok"

\* C2 as claimed: with no line named HEAD, changeRefs fails with ErrNoVersion for
\* every requested bucket, with neither a payload nor a version list.
C2_NoHeadAlwaysFails ==
    (Rewritten /\ HeadAt = {}) => res = Err("ErrNoVersion")

\* C2 amended: with no line named HEAD, changeRefs fails with ErrNoVersion, except
\* that with no versioned reference at all and the bucket v0 stable it returns the
\* input unchanged with an empty version list.
C2_NoHeadFailsUnlessFallback ==
    (Rewritten /\ HeadAt = {}) =>
        IF VersionedAt = {} /\ major = Ver(0, -1, -1, FALSE)
        THEN res = Ok(data, <<>>)
        ELSE res = Err("ErrNoVersion")

\* no HEAD line, a reference matching the requested bucket: the rewrite is refused
C2_Witness ==
    /\ Rewritten /\ HeadAt = {} /\ MatchingAt # {}
    /\ res = Err("ErrNoVersion")

\* the selected reference is a branch (refs/heads/...)
SelectedIsBranch == GreatestAt # {} /\ HasPrefix(LineAt(LastGreatest).name, prefixHeads)

\* C3 as claimed: whenever changeRefs(A, M) succeeds with B, changeRefs(B, M)
\* succeeds with output byte-identical to B, branch or tag.
C3_Idempotent ==
    phase = "again" => (res2.kind = "ok" /\ res2.changed = res.changed)

\* C3 amended: rewriting the output again succeeds; it is byte-identical when the
\* selected reference is a tag (or nothing was rewritten) and the input had at most
\* one refs/heads/master line; when the selected reference is a branch the second
\* HEAD line differs, gaining the token oldref=HEAD:<branch>.
C3_IdempotentForTags ==
    phase = "again" =>
        /\ res2.kind = "ok"
        /\ (~SelectedIsBranch /\ Cardinality(MasterAt) <= 1) => res2.changed = res.changed
        /\ (SelectedIsBranch /\ res.changed # data) =>
              Len(res2.changed) = Len(res.changed) + Len(oldrefKey) + Len(nameHEAD) + 2
                                    + Len(LineAt(LastGreatest).name)

\* a tag was selected from an advertisement whose HEAD carried capabilities, and
\* the output was rewritten again
C3_Witness ==
    /\ phase = "again" /\ MatchingAt # {} /\ ~SelectedIsBranch
    /\ \E k \in HeadAt : LineAt(k).caps # <<>>
    /\ res.changed # data
    /\ res2.changed = res.changed

\* C4: with no reference that parses as a version and the bucket exactly v0 stable,
\* changeRefs returns the input byte for byte with an empty version list and no
\* error; with versioned references of which none has major 0, a v0 request fails
\* with ErrNoVersion.
C4_V0Fallback ==
    (Rewritten /\ major = Ver(0, -1, -1, FALSE)) =>
        /\ VersionedAt = {} => res = Ok(data, <<>>)
        /\ (VersionedAt # {} /\ \A k \in VersionedAt : LineAt(k).ver.Major # 0) =>
              res = Err("ErrNoVersion")

\* both cases of C4: HEAD and master only; HEAD and a v1 tag
C4_Witness ==
    /\ Rewritten /\ major = Ver(0, -1, -1, FALSE) /\ HeadAt # {} /\ hdr
    /\ \/ VersionedAt = {} /\ MasterAt # {} /\ res.kind = "ok"
       \/ VersionedAt # {} /\ MatchingAt = {} /\ res.kind = "error"

\* C5: the hash written into HEAD is that of the last line, in stream order, among
\* the references with the greatest version in the requested bucket: a peeled line
\* that follows its own tag overrides it.
C5_LastOfGreatestSelected ==
    (Rewritten /\ res.kind = "ok" /\ res.changed # data) =>
        /\ GreatestAt # {}
        /\ LET hs == HashesNamed(res.changed, nameHEAD)
           IN  /\ \E n \in 1..Len(hs) : hs[n] = HashOf(LineAt(LastGreatest))
               /\ \A n \in 1..Len(hs) :
                     \/ hs[n] = HashOf(LineAt(LastGreatest))
                     \/ \E k \in HeadAt : hs[n] = HashOf(LineAt(k))

\* a tag and, later in the stream, its peeled form, both the greatest match
C5_Witness ==
    /\ Rewritten /\ res.kind = "ok"
    /\ \E k, m \in GreatestAt :
          /\ k < m /\ m = LastGreatest
          /\ LineAt(m).name = LineAt(k).name \o peelSuffix
          /\ HashOf(LineAt(k)) # HashOf(LineAt(m))
    /\ HashesNamed(res.changed, nameMaster) = <<HashOf(LineAt(LastGreatest))>>

\* C6: on success the returned version list holds every parsed version of a
\* refs/heads/v* or refs/tags/v* line in stream order, matching the bucket or not;
\* a version outside the bucket is in the list and is never the one selected.
C6_AllVersionsInStreamOrder ==
    (Rewritten /\ res.kind = "ok" /\ res.changed # data) =>
        /\ res.versions = VersionsFrom(1)
        /\ \A k \in VersionedAt \ MatchingAt :
              /\ \E n \in 1..Len(res.versions) : res.versions[n] = LineAt(k).ver
              /\ \A n \in 1..Len(HashesNamed(res.changed, nameMaster)) :
                    HashesNamed(res.changed, nameMaster)[n] # HashOf(LineAt(k))

\* a successful rewrite of an advertisement with a matching version followed by a
\* greater version of another major
C6_Witness ==
    /\ Rewritten /\ res.kind = "ok" /\ res.changed # data
    /\ \E k \in MatchingAt : \E m \in VersionedAt \ MatchingAt :
          k < m /\ LineAt(m).ver.Major > major.Major
    /\ Len(res.versions) >= 2

-----------------------------------------------------------------------------
(* C7..C10: the fetcher and the resolver.  Checked under Spec, where the   *)
(* ReplaceVanity calls come one after another.                             *)

InFetch(p) == pc[p] \in {"httpGet", "setRefs"}

\* C7: a fetchRefs call made less than the TTL after the last 200 for the same root
\* was stored makes no outbound request (it is answered from the cache); one made
\* with no such 200, or TTL or more after it, goes to the network, and no fetchRefs
\* call makes more than one request.
C7_OneRequestPerWindow ==
    \A p \in Procs :
        /\ InFetch(p) =>
              \/ hist[RootOf(p)].last = -1
              \/ loc[p].tget - hist[RootOf(p)].last >= refsCacheTTL
        /\ (pc[p] = "changeRefs" /\ loc[p].hit) =>
              /\ hist[RootOf(p)].last >= 0
              /\ loc[p].tget - hist[RootOf(p)].last < refsCacheTTL
        /\ Len(loc[p].outs) <= loc[p].attempt
        /\ pc[p] = "idle" => \A r \in Roots : calls[r] >= hist[r].oks

\* three calls for one root, every answer a 200: the first goes to the network, the
\* second is answered from the cache, the third, after the TTL, is the second request
C7_Witness ==
    \E p \in Procs :
        /\ pc[p] = "setRefs"
        /\ started = 3
        /\ calls[RootOf(p)] = 2
        /\ hist[RootOf(p)].oks = 1
        /\ hist[RootOf(p)].hits = 1
        /\ loc[p].tget - hist[RootOf(p)].last >= refsCacheTTL

\* C8: handle calls fetchRefs again exactly when its first call failed with a
\* timeout, once, after closing the idle connections; one resolution issues at most
\* two outbound requests, and two only when the first timed out.
C8_RetryOnceOnTimeoutOnly ==
    \A p \in Procs :
        /\ Len(loc[p].outs) <= 2
        /\ loc[p].attempt <= 2
        /\ loc[p].attempt = 2 <=> (Len(loc[p].outs) >= 1 /\ loc[p].outs[1] = "timeout")
        /\ loc[p].closes = (IF loc[p].attempt = 2 THEN 1 ELSE 0)
        /\ (pc[p] = "done" /\ loc[p].outs # <<>>) =>
              loc[p].attempt = (IF loc[p].outs[1] = "timeout" THEN 2 ELSE 1)

\* the retry timed out too: two requests, the call is over
C8_Witness ==
    \E p \in Procs :
        /\ pc[p] = "done"
        /\ loc[p].outs = <<"timeout", "timeout">>
        /\ loc[p].closes = 1

\* C9 as claimed: when the fetch or the rewrite failed, ReplaceVanity returns a
\* non-nil error.
C9_FailuresSurfaced ==
    \A p \in Procs :
        (pc[p] = "done" /\ loc[p].err # "nil") => loc[p].ret.err # "nil"

\* C10: once the path passed the grammar, a failed fetch or rewrite does not abort
\* the call: handle returns the repo with no error, FullVersion is still
\* InvalidVersion and the tree label ReplaceVanity returns is "master".
C10_FailuresLeaveMaster ==
    \A p \in Procs :
        (pc[p] = "done" /\ loc[p].err # "nil") =>
            /\ loc[p].ret.err = "nil"
            /\ loc[p].repo.FullVersion = InvalidVersion
            /\ loc[p].ret.version = treeMaster
            /\ HasPrefix(loc[p].ret.module, GitHubRoot(loc[p].repo))

\* the rewriter found no version for the bucket, and the call returned "master"
C10_Witness ==
    \E p \in Procs :
        /\ pc[p] = "done"
        /\ loc[p].err = "ErrNoVersion"
        /\ loc[p].ret.err = "nil"
        /\ loc[p].ret.version = treeMaster

-----------------------------------------------------------------------------
(* C11: fetchRefs' classification of the response.  Checked under Spec.    *)

LastOut(p) == loc[p].outs[Len(loc[p].outs)]

\* C11: a fetchRefs that ends on 401 or 404 returns ErrNoRepo, on another non-200
\* status an upstream error, on a client timeout ErrTimeout; on a 200 it returns the
\* body it read; the cache, keyed by the root alone, holds an entry for a root
\* exactly when a 200 for that root was stored, stamped when it was stored: no
\* failure writes it.
C11_ResponseClassified ==
    /\ \A p \in Procs :
          /\ (pc[p] = "done" /\ loc[p].outs # <<>> /\ LastOut(p) # "200") =>
                /\ LastOut(p) \in {"401", "404"} => loc[p].err = "ErrNoRepo"
                /\ LastOut(p) = "500" => loc[p].err = "UpstreamError"
                /\ LastOut(p) = "timeout" => loc[p].err = "ErrTimeout"
          /\ (pc[p] = "changeRefs" /\ ~loc[p].hit) =>
                /\ LastOut(p) = "200"
                /\ loc[p].original = loc[p].fetched
                /\ refsCache[RootOf(p)].refs = loc[p].fetched
    /\ \A r \in Roots :
          /\ refsCache[r] = NoEntry <=> hist[r].oks = 0
          /\ refsCache[r].timestamp = hist[r].last

\* a 404 for a root whose entry has expired: ErrNoRepo, and the stale entry is
\* still the one the earlier 200 left
C11_Witness ==
    \E p \in Procs :
        /\ pc[p] = "done"
        /\ loc[p].outs = <<"404">>
        /\ loc[p].err = "ErrNoRepo"
        /\ refsCache[RootOf(p)] # NoEntry
        /\ now - refsCache[RootOf(p)].timestamp >= refsCacheTTL

-----------------------------------------------------------------------------
(* C12: malformed input.  Checked under Spec, whose upstream also answers  *)
(* with a truncated advertisement.                                         *)

\* C12 as claimed: changeRefs ends with a result or an error value for every
\* input, never with a runtime fault.
C12_NoRuntimeFault ==
    \A p \in Procs : pc[p] # "panicked"

-----------------------------------------------------------------------------
(* C13: the path grammar.  Checked under Spec.                             *)

nameYaml    == <<"y","a","m","l">>
nameCheck   == <<"c","h","e","c","k">>
userGoCheck == <<"g","o","-","c","h","e","c","k">>

\* the repo handle built has this owner, name, major and syntax flag
Normalized(repo, user, name, maj, old) ==
    /\ repo # <<>>
    /\ repo.User = user
    /\ repo.Name = name
    /\ repo.SubPath = <<>>
    /\ repo.MajorVersion = Ver(maj, -1, -1, FALSE)
    /\ repo.OldFormat = old

\* C13: /yaml.v2 (new syntax) and /v2/yaml (old syntax) both give owner "", name
\* yaml, major 2, and differ in the syntax flag alone; /v1/yaml gives major 1;
\* /go-check/check.v1 gives owner go-check, name check, major 1; /pkg.v2.1 fails
\* with MajorOnly and /yaml with the unsupported-pattern error; a call that fails
\* in the grammar has made no request and no cache lookup.
C13_GrammarNormalizes ==
    \A p \in Procs :
        pc[p] \in {"getRefs", "httpGet", "setRefs", "changeRefs", "done"} =>
            /\ Paths[loc[p].path] = pathYamlV2 =>
                  Normalized(loc[p].repo, <<>>, nameYaml, 2, FALSE)
            /\ Paths[loc[p].path] = pathV2Yaml =>
                  Normalized(loc[p].repo, <<>>, nameYaml, 2, TRUE)
            /\ Paths[loc[p].path] = pathV1Yaml =>
                  Normalized(loc[p].repo, <<>>, nameYaml, 1, TRUE)
            /\ Paths[loc[p].path] = pathCheckV1 =>
                  Normalized(loc[p].repo, userGoCheck, nameCheck, 1, FALSE)
            /\ Paths[loc[p].path] = pathPkgV21 =>
                  pc[p] = "done" /\ loc[p].ret.err = "MajorOnly"
            /\ Paths[loc[p].path] = pathYaml =>
                  pc[p] = "done" /\ loc[p].ret.err = "Unsupported"
            /\ (pc[p] = "done" /\ loc[p].ret.err # "nil") =>
                  /\ loc[p].outs = <<>>
                  /\ loc[p].tget = -1
                  /\ loc[p].attempt = 0

\* /v2/yaml got through the grammar and its fetch is about to start
C13_Witness ==
    \E p \in Procs :
        /\ pc[p] = "getRefs"
        /\ Paths[loc[p].path] = pathV2Yaml
        /\ loc[p].repo.OldFormat
        /\ loc[p].repo.Name = nameYaml

-----------------------------------------------------------------------------
(* C14: what ReplaceVanity returns on success.  Checked under Spec.        *)

rootGoYaml  == <<"g","i","t","h","u","b",".","c","o","m","/","g","o","-","y","a","m","l","/","y","a","m","l">>
rootGoCheck == <<"g","i","t","h","u","b",".","c","o","m","/","g","o","-","c","h","e","c","k","/","c","h","e","c","k">>
textV130    == <<"v","1",".","3",".","0">>
textV200    == <<"v","2",".","0",".","0">>

Returned(p) == pc[p] = "done" /\ loc[p].ret.err = "nil"

\* C14: a successful ReplaceVanity returns <root>/v<major> for a major above 1 and
\* <root> alone for majors 0 and 1, the root being github.com/<owner>/<name> with
\* the owner go-<name> when the path names none; the tree label is "master" when
\* FullVersion is InvalidVersion and the text of FullVersion otherwise.
C14_RedirectTargetAndTree ==
    \A p \in Procs :
        Returned(p) =>
            /\ Paths[loc[p].path] \in {pathYamlV2, pathV2Yaml} =>
                  loc[p].ret.module = rootGoYaml \o <<"/","v","2">>
            /\ Paths[loc[p].path] \in {pathV1Yaml, pathYamlV0} =>
                  loc[p].ret.module = rootGoYaml
            /\ Paths[loc[p].path] = pathCheckV1 =>
                  loc[p].ret.module = rootGoCheck
            /\ loc[p].repo.FullVersion = InvalidVersion <=> loc[p].ret.version = treeMaster
            /\ loc[p].repo.FullVersion = Ver(1, 3, 0, FALSE) <=> loc[p].ret.version = textV130
            /\ loc[p].repo.FullVersion = Ver(2, 0, 0, FALSE) <=> loc[p].ret.version = textV200
            /\ loc[p].ret.version \in {treeMaster, textV130, textV200}

\* /v1/yaml resolved to v1.3.0: the target is the root alone, the tree v1.3.0
C14_Witness ==
    \E p \in Procs :
        /\ Returned(p)
        /\ Paths[loc[p].path] = pathV1Yaml
        /\ loc[p].ret.module = rootGoYaml
        /\ loc[p].ret.version = textV130

-----------------------------------------------------------------------------
(* C15: FullVersion after SetVersions.  Checked under Spec.                *)

\* the places of AllVersions whose major and unstable flag are the requested ones
Matching(repo) ==
    {i \in 1..Len(repo.AllVersions) :
        /\ repo.AllVersions[i].Major = repo.MajorVersion.Major
        /\ repo.AllVersions[i].Unstable = repo.MajorVersion.Unstable}

BestMatches(repo) ==
    /\ repo.FullVersion = InvalidVersion <=> Matching(repo) = {}
    /\ Matching(repo) # {} =>
          /\ \E i \in Matching(repo) : repo.FullVersion = repo.AllVersions[i]
          /\ \A i \in Matching(repo) : ~Less(repo.FullVersion, repo.AllVersions[i])

SetOnce(p) ==
    (/\ loc[p].repo # <<>>
     /\ loc'[p].repo # <<>>
     /\ loc'[p].repo.FullVersion # loc[p].repo.FullVersion)
        => /\ pc[p] = "changeRefs"
           /\ pc'[p] = "done"
           /\ loc[p].repo.FullVersion = InvalidVersion
           /\ loc[p].repo.AllVersions = <<>>

\* C15: in every state of a Repo, FullVersion is the greatest of AllVersions with
\* the major and the unstable flag of MajorVersion, and InvalidVersion exactly
\* when none has them; FullVersion changes at most once per call, in SetVersions.
C15_FullVersionIsGreatestMatch ==
    /\ [](\A p \in Procs : loc[p].repo # <<>> => BestMatches(loc[p].repo))
    /\ [][\A p \in Procs : SetOnce(p)]_vars

\* /v1/yaml with v1.3.0 listed before v1.2.0, and v2.0.0 listed last
C15_Witness ==
    \E p \in Procs :
        /\ pc[p] = "done"
        /\ Paths[loc[p].path] = pathV1Yaml
        /\ loc[p].repo.AllVersions =
              <<Ver(1, 3, 0, FALSE), Ver(1, 2, 0, FALSE), Ver(2, 0, 0, FALSE)>>
        /\ loc[p].repo.FullVersion = Ver(1, 3, 0, FALSE)

-----------------------------------------------------------------------------
(* C16, C17, C19: the dispatcher, one request after another.  Checked      *)
(* under SpecMod.                                                          *)

\* goroutine p is returning from ReplaceMod
ModDone(p) == mpc[p] = "mdone" /\ mloc[p].op = "ReplaceMod" /\ ~mloc[p].failed

\* goroutine p is returning the replacement a rule produced
RuleProduced(p) == ModDone(p) /\ mloc[p].e.set

CachedBothWays(p) ==
    /\ mloc[p].path \in DOMAIN cache
    /\ mloc[p].ret \in DOMAIN cache
    /\ cache[mloc[p].path] = cache[mloc[p].ret]
    /\ cache[mloc[p].path].vanityModule = mloc[p].path
    /\ cache[mloc[p].path].replModule = mloc[p].ret
    /\ Restore(cache, mloc[p].path) = [path |-> mloc[p].path, ok |-> TRUE]
    /\ Restore(cache, mloc[p].ret) = [path |-> mloc[p].path, ok |-> TRUE]

RestoreAnswer(p) ==
    IF mloc[p].path \in DOMAIN cache
    THEN mloc[p].ok /\ mloc[p].ret = cache[mloc[p].path].vanityModule
    ELSE ~mloc[p].ok /\ mloc[p].ret = mloc[p].path

\* a ReplaceMod whose path has a record returns its replModule, the resolver idle
ServedFromCache(p) ==
    (/\ mpc[p] = "lookup"
     /\ mpc'[p] # "lookup"
     /\ mloc[p].path \in DOMAIN cache)
        => /\ mpc'[p] = "mdone"
           /\ mloc'[p].hit
           /\ mloc'[p].ret = cache[mloc[p].path].replModule
           /\ ~mloc'[p].resolved
           /\ pc' = pc
           /\ calls' = calls
           /\ cache' = cache

\* the record written for a vanity path stays under it
RecordStays ==
    \A k \in DOMAIN cache :
        cache[k].vanityModule = k => k \in DOMAIN cache' /\ cache'[k] = cache[k]

\* C16: when ReplaceMod(path) returns the replacement r of a matching rule, one
\* record is under path and under r, Restore(path) and Restore(r) give (path, true),
\* and a later ReplaceMod(path) gives r from the cache with no call of the
\* resolver; Restore of a path with no record gives (that path, false).
C16_RecordUnderBothPaths ==
    /\ [](\A p \in Procs :
            /\ RuleProduced(p) => CachedBothWays(p)
            /\ (mpc[p] = "mdone" /\ mloc[p].op = "Restore") => RestoreAnswer(p))
    /\ [][RecordStays /\ \A p \in Procs : ServedFromCache(p)]_vars

\* gopkg.in/yaml.v2 asked a second time: answered from the record
C16_Witness ==
    \E p \in Procs :
        /\ ModDone(p)
        /\ mloc[p].hit
        /\ mloc[p].path = pathYamlV2
        /\ mloc[p].ret = rootGoYaml \o <<"/","v","2">>
        /\ cache[rootGoYaml \o <<"/","v","2">>].vanityModule = pathYamlV2
        /\ calls[rootGoYaml] = 1

\* the resolver returned an error to ReplaceMod: the path comes back, nothing is written
ErrorPassesThrough(p) ==
    (/\ mpc[p] = "plugin"
     /\ pc[p] = "done"
     /\ loc[p].ret.err # "nil"
     /\ mpc'[p] # "plugin")
        => /\ mpc'[p] = "mdone"
           /\ mloc'[p].ret = mloc[p].path
           /\ ~mloc'[p].failed
           /\ ~mloc'[p].e.set
           /\ cache' = cache

\* C17: when the matched rule names a resolver and the resolver returns an error,
\* ReplaceMod returns the path it was given, no record is written under any key,
\* and the request does not fail.
C17_ResolverErrorPassesThrough ==
    /\ [](\A k \in DOMAIN cache :
            /\ cache[k].vanityModule \notin {pathPkgV21, pathYaml}
            /\ cache[k].replModule # <<>>)
    /\ [](\A p \in Procs :
            (ModDone(p) /\ mloc[p].path \in {pathPkgV21, pathYaml})
                => /\ mloc[p].ret = mloc[p].path
                   /\ mloc[p].resolved
                   /\ mloc[p].path \notin DOMAIN cache)
    /\ [][\A p \in Procs : ErrorPassesThrough(p)]_vars

\* gopkg.in/pkg.v2.1 refused by the resolver, after another request filled the cache
C17_Witness ==
    \E p \in Procs :
        /\ ModDone(p)
        /\ mloc[p].path = pathPkgV21
        /\ mloc[p].resolved
        /\ mloc[p].ret = pathPkgV21
        /\ DOMAIN cache = {pathExampleLib, githubCom \o <<"/","e","x","/","l","i","b">>}

\* goroutine p is past the rule scan of a ReplaceMod that missed the cache
Scanned(p) ==
    /\ mloc[p].op = "ReplaceMod"
    /\ mpc[p] \notin {"lookup", "fatal"}
    /\ ~mloc[p].hit

\* C19: ReplaceMod applies the first rule, in the configured order, whose Vanity
\* is a prefix of the path, and no later one; a path no rule matches, with no
\* record, comes back unchanged and nothing is written.
C19_FirstMatchingRuleOnly ==
    \A p \in Procs :
        Scanned(p) =>
            /\ mloc[p].rule = 0 <=>
                  \A j \in 1..Len(replacements) : ~HasPrefix(mloc[p].path, replacements[j].Vanity)
            /\ mloc[p].rule # 0 =>
                  /\ HasPrefix(mloc[p].path, replacements[mloc[p].rule].Vanity)
                  /\ \A j \in 1..(mloc[p].rule - 1) :
                         ~HasPrefix(mloc[p].path, replacements[j].Vanity)
            /\ (mloc[p].rule = 0 /\ mpc[p] = "mdone") =>
                  /\ mloc[p].ret = mloc[p].path
                  /\ mloc[p].path \notin DOMAIN cache
            /\ (ModDone(p) /\ mloc[p].path = pathExampleLib) =>
                  mloc[p].ret = githubCom \o <<"/","e","x","/","l","i","b">>
            /\ (ModDone(p) /\ mloc[p].path = pathCorpTool) =>
                  mloc[p].ret = githubCom \o <<"/","c","o","r","p","/","t">>
            /\ (ModDone(p) /\ HasPrefix(mloc[p].path, gopkgIn)) =>
                  ~HasPrefix(mloc[p].ret, replacements[2].Replacement)

\* gopkg.in/yaml.v2 matches the first and the second rule: the first one answered
C19_Witness ==
    \E p \in Procs :
        /\ ModDone(p)
        /\ ~mloc[p].hit
        /\ mloc[p].path = pathYamlV2
        /\ RuleMatches(pathYamlV2) = {1, 2}
        /\ mloc[p].rule = 1
        /\ mloc[p].ret = rootGoYaml \o <<"/","v","2">>

-----------------------------------------------------------------------------
(* C18, C20: requests served at once.  Checked under SpecConc.             *)

\* C18: every read of the dispatcher's cache holds cacheMux shared, every write
\* holds it exclusively, so no read runs while another goroutine writes the map.
C18_AccessUnderLock ==
    \A p \in Procs :
        /\ mpc[p] \in {"write1", "write2"} => cacheMux = [writer |-> p, readers |-> {}]
        /\ mpc[p] = "rread" => cacheMux.writer = 0 /\ p \in cacheMux.readers
        /\ mpc[p] = "lookup" => cacheMux.writer \in {0, p}

\* goroutine p is in setRefs with the payload it fetched
SetRefsGuard(p) ==
    (pc[p] = "setRefs" /\ pc'[p] # "setRefs") =>
        /\ \A r \in Roots \ {RootOf(p)} : refsCache'[r] = refsCache[r]
        /\ IF /\ refsCache[RootOf(p)] # NoEntry
              /\ now - refsCache[RootOf(p)].timestamp < refsCacheTTL
           THEN refsCache'[RootOf(p)] = refsCache[RootOf(p)]
           ELSE refsCache'[RootOf(p)] = [refs |-> loc[p].fetched, timestamp |-> now]

\* C20: setRefs discards the write when the key has a fresh entry (payload and
\* timestamp stay), and otherwise replaces the entry with the new payload stamped
\* with the time of the write; of two fetches for one key that both went to the
\* network, the payload written first stays for that TTL window.
C20_RefreshGuard ==
    [][/\ \A p \in Procs : SetRefsGuard(p)
       /\ refsCache' # refsCache => \E p \in Procs : pc[p] = "setRefs" /\ pc'[p] # "setRefs"]_vars

\* both goroutines got a 200 for github.com/go-yaml/yaml with different bodies
\* and both went through setRefs: the entry is the one written first
C20_Witness ==
    /\ pc[1] = "changeRefs" /\ pc[2] = "changeRefs"
    /\ ~loc[1].hit /\ ~loc[2].hit
    /\ RootOf(1) = rootGoYaml /\ RootOf(2) = rootGoYaml
    /\ loc[1].fetched # loc[2].fetched
    /\ calls[rootGoYaml] = 2
    /\ refsCache[rootGoYaml].refs = loc[1].fetched
    /\ hist[rootGoYaml].oks = 2
    /\ hist[rootGoYaml].last - refsCache[rootGoYaml].timestamp < refsCacheTTL

-----------------------------------------------------------------------------
(* C21: getRefs.  Checked under Spec.                                      *)

\* the key has an entry younger than the TTL
Fresh(root) ==
    refsCache[root] # NoEntry /\ now - refsCache[root].timestamp < refsCacheTTL

GetRefsAnswer(p) ==
    (pc[p] = "getRefs" /\ pc'[p] # "getRefs") =>
        /\ refsCache' = refsCache
        /\ IF Fresh(RootOf(p))
           THEN /\ pc'[p] = "changeRefs"
                /\ loc'[p].hit
                /\ loc'[p].original = refsCache[RootOf(p)].refs
                /\ calls' = calls
           ELSE /\ pc'[p] = "httpGet"
                /\ ~loc'[p].hit

\* C21: getRefs returns the payload of a key exactly when the key has an entry
\* and now - timestamp < refsCacheTTL; an entry whose age has reached the TTL is
\* as good as absent and fetchRefs goes to the network; getRefs leaves the cache
\* as it is.
C21_GetRefsFreshOnly ==
    [][\A p \in Procs : GetRefsAnswer(p)]_vars

\* the entry is exactly refsCacheTTL old and the call is on its way to the network
C21_Witness ==
    \E p \in Procs :
        /\ pc[p] = "httpGet"
        /\ loc[p].tget = now
        /\ refsCache[RootOf(p)] # NoEntry
        /\ now - refsCache[RootOf(p)].timestamp = refsCacheTTL

-----------------------------------------------------------------------------
(* C22..C26: the rewriter again.  Checked under SpecRefs.                  *)

RECURSIVE JoinSpace(_)
JoinSpace(toks) ==
    IF toks = <<>> THEN <<>>
    ELSE IF Len(toks) = 1 THEN toks[1]
    ELSE toks[1] \o <<SP>> \o JoinSpace(Tail(toks))

\* a capability token with the key of the default-branch symref renamed
RenamedToken(tok) ==
    IF HasPrefix(tok, symrefHEAD)
    THEN oldrefKey \o SubSeq(tok, Len(symrefKey) + 1, Len(tok))
    ELSE tok

\* the capability string with that one key renamed, token by token
RenameDefault(caps) ==
    IF caps = <<>> THEN <<>>
    ELSE JoinSpace([n \in 1..Len(Split(caps, SP)) |-> RenamedToken(Split(caps, SP)[n])])

\* the HEAD line claimed for the selected line k and the original HEAD line h
ClaimedHead(k, h) ==
    HashOf(LineAt(k)) \o <<SP>> \o nameHEAD
        \o (IF HasPrefix(LineAt(k).name, prefixHeads)
            THEN <<NUL>> \o symrefHEAD \o LineAt(k).name
                     \o (IF LineAt(h).caps = <<>> THEN <<>>
                         ELSE <<SP>> \o RenameDefault(LineAt(h).caps))
            ELSE IF LineAt(h).caps = <<>> THEN <<>>
                 ELSE <<NUL>> \o RenameDefault(LineAt(h).caps))
        \o <<LF>>

\* C22: the rewritten HEAD line carries, for a branch, symref=HEAD:<branch> and
\* then the preserved capability string, and for a tag the preserved string alone;
\* in the preserved string the key of the default-branch symref capability is
\* renamed to oldref= and every other token is as it was.
C22_HeadLineCapabilities ==
    (Rewritten /\ res.kind = "ok" /\ res.changed # data) =>
        \E h \in HeadAt :
            \E n \in 1..Len(PktPayloads(res.changed)) :
                PktPayloads(res.changed)[n] = ClaimedHead(LastGreatest, h)

\* the bytes of the lines a..b of the advertisement, the refs/heads/master lines
\* left out when drop
RECURSIVE StreamBytes(_, _, _)
StreamBytes(a, b, drop) ==
    IF a > b THEN <<>>
    ELSE (IF drop /\ a \in MasterAt THEN <<>> ELSE PktLine(Payload(LineAt(a))))
             \o StreamBytes(a + 1, b, drop)

\* all bytes before line h, and all bytes after it without the master line
BytesBefore(h) ==
    (IF hdr THEN PktLine(serviceLine \o <<LF>>) \o FlushPkt ELSE <<>>)
        \o StreamBytes(1, h - 1, FALSE)

BytesAfter(h) == StreamBytes(h + 1, Len(ad), TRUE) \o FlushPkt

\* b is a HEAD line and a refs/heads/master line, each under its own length
TwoNewLines(b) ==
    /\ Len(PktPayloads(b)) = 2
    /\ 8 + Len(PktPayloads(b)[1]) + Len(PktPayloads(b)[2]) = Len(b)
    /\ EntryName(PktPayloads(b)[1]) = nameHEAD
    /\ EntryName(PktPayloads(b)[2]) = nameMaster

FramedAround(h) ==
    /\ Len(res.changed) >= Len(BytesBefore(h)) + Len(BytesAfter(h))
    /\ SubSeq(res.changed, 1, Len(BytesBefore(h))) = BytesBefore(h)
    /\ SubSeq(res.changed, Len(res.changed) - Len(BytesAfter(h)) + 1, Len(res.changed))
          = BytesAfter(h)
    /\ TwoNewLines(SubSeq(res.changed, Len(BytesBefore(h)) + 1,
                          Len(res.changed) - Len(BytesAfter(h))))
    /\ Len(HashesNamed(res.changed, nameMaster)) = 1

\* C23: a successful rewrite of a stream with one HEAD line and at most one
\* refs/heads/master line is the bytes before the HEAD line, the new HEAD line,
\* the new master line, and the bytes after the HEAD line, the original master
\* line left out wherever it stood; the two new lines have the length prefix
\* 4 + payload length.
C23_FrameUnchanged ==
    (/\ Rewritten /\ res.kind = "ok" /\ res.changed # data
     /\ Cardinality(HeadAt) = 1
     /\ Cardinality(MasterAt) <= 1)
        => \A h \in HeadAt : FramedAround(h)

\* the first pkt-line of the output from byte offset n on is a HEAD line with
\* the hash of the selected reference
NewHeadAt(n) ==
    /\ PktPayloads(SubSeq(res.changed, n + 1, Len(res.changed))) # <<>>
    /\ EntryName(PktPayloads(SubSeq(res.changed, n + 1, Len(res.changed)))[1]) = nameHEAD
    /\ EntryHash(PktPayloads(SubSeq(res.changed, n + 1, Len(res.changed)))[1])
          = HashOf(LineAt(LastGreatest))

\* C24: with several lines named HEAD the span that changeRefs replaces is that of
\* the first of them, and a HEAD line is recognized wherever it starts, at byte
\* offset 0 too: with a HEAD line and a matching reference the rewrite is not
\* refused, and the new HEAD line stands where the first HEAD line stood.
C24_FirstHeadReplaced ==
    Rewritten =>
        /\ (HeadAt # {} /\ MatchingAt # {}) => res.kind # "error"
        /\ (res.kind = "ok" /\ res.changed # data /\ HeadAt # {}) =>
              /\ Len(res.changed) >= Len(BytesBefore(MinOf(HeadAt)))
              /\ SubSeq(res.changed, 1, Len(BytesBefore(MinOf(HeadAt))))
                    = BytesBefore(MinOf(HeadAt))
              /\ NewHeadAt(Len(BytesBefore(MinOf(HeadAt))))

\* line k has the form <40 hexadecimal characters><space><name>
IsRef(k) == LineAt(k).hashLen = HashLen /\ IsHexDigit(LineAt(k).hash)

RECURSIVE RefVersionsFrom(_)
RefVersionsFrom(k) ==
    IF k > Len(ad) THEN <<>>
    ELSE (IF IsRef(k) /\ LineAt(k).ver # InvalidVersion THEN <<LineAt(k).ver>> ELSE <<>>)
             \o RefVersionsFrom(k + 1)

\* C25: only the lines <40 hexadecimal characters><space><name> are reference
\* entries: a line that begins with '#' or whose first space does not follow 40
\* hexadecimal characters adds no version to the list and is never the selected
\* reference, and no well-formed line is skipped because of it.
C25_OnlyReferenceEntries ==
    (Rewritten /\ res.kind = "ok" /\ res.changed # data) =>
        /\ res.versions = RefVersionsFrom(1)
        /\ \A n \in 1..Len(HashesNamed(res.changed, nameMaster)) :
              \E k \in 1..Len(ad) :
                  IsRef(k) /\ HashesNamed(res.changed, nameMaster)[n] = HashOf(LineAt(k))

\* the line whose hash the rewrite wrote into the new refs/heads/master line (and
\* into HEAD) carries version v
WroteHashOf(v) ==
    \E k \in 1..Len(ad) :
        /\ LineAt(k).hashLen = HashLen
        /\ LineAt(k).ver = v
        /\ \E n \in 1..Len(HashesNamed(res.changed, nameHEAD)) :
               HashesNamed(res.changed, nameHEAD)[n] = HashOf(LineAt(k))
        /\ \E n \in 1..Len(HashesNamed(res.changed, nameMaster)) :
               HashesNamed(res.changed, nameMaster)[n] = HashOf(LineAt(k))

\* C26: when changeRefs succeeds with a rewritten payload and the list L, the
\* version of the reference whose hash it wrote into HEAD is the FullVersion that
\* SetVersions(L) gives the Repo of the same bucket.
C26_SelectionsAgree ==
    (Rewritten /\ res.kind = "ok" /\ res.changed # data) =>
        /\ rrepo.AllVersions = res.versions
        /\ rrepo.FullVersion # InvalidVersion
        /\ rrepo.FullVersion = LineAt(LastGreatest).ver
        /\ WroteHashOf(rrepo.FullVersion)

\* v1.3.0 listed before v1.2.0: both selections give v1.3.0
C26_Witness ==
    /\ Rewritten /\ res.kind = "ok" /\ res.changed # data
    /\ hdr
    /\ res.versions = <<Ver(1, 3, 0, FALSE), Ver(1, 2, 0, FALSE)>>
    /\ rrepo.FullVersion = Ver(1, 3, 0, FALSE)
    /\ HashesNamed(res.changed, nameMaster) = <<HashOf(Catalog[7])>>

-----------------------------------------------------------------------------
(* C27: the dispatcher's records over several requests.  Checked under     *)
(* SpecMod.                                                                *)

\* ReplaceMod(k) has written its record under k and under the replacement, and
\* has returned or is about to
Recorded(k) ==
    /\ k \in DOMAIN cache
    /\ cache[k].vanityModule = k
    /\ \A p \in Procs : mpc[p] \in {"lock2", "write2"} => mloc[p].path # k

\* C27: once ReplaceMod(p) has created a record and returned r, a later
\* ReplaceMod(p) returns r and a later Restore(r) returns p, whatever was
\* dispatched in between.
C27_RecordNeverOverwritten ==
    \A k \in DOMAIN cache :
        Recorded(k) =>
            /\ DispatchRead(k, <<>>, readCache(cache, k)).ret = cache[k].replModule
            /\ Restore(cache, cache[k].replModule) = [path |-> k, ok |-> TRUE]

-----------------------------------------------------------------------------
(* C28: what fetchRefs returns against what the cache holds.  Checked under *)
(* SpecConc.                                                               *)

\* fetchRefs of goroutine p returns without an error: from the cache, or after
\* setRefs
FetchRefsReturns(p) ==
    pc[p] \in {"getRefs", "setRefs"} /\ pc'[p] = "changeRefs"

\* C28: a successful fetchRefs(root) returns the payload the cache holds for root
\* when it returns, also when its own write was discarded by the refresh guard.
C28_ReturnsCachedPayload ==
    [][\A p \in Procs :
          FetchRefsReturns(p) =>
              /\ refsCache'[RootOf(p)] # NoEntry
              /\ loc'[p].original = refsCache'[RootOf(p)].refs]_vars

====
